---- MODULE Spec2Model ----
(***************************************************************************)
(* Model of the event-driven message passing (EDMP) link of imapfw:        *)
(* one Emitter and one Receiver sharing an event, a result and an error    *)
(* queue (src/imapfw/edmp.py), on top of Queue (src/imapfw/concurrency.py).*)
(***************************************************************************)
EXTENDS Integers, Sequences, FiniteSets, TLC

VARIABLES
    eventQ,     \* Emitter._eventQueue / Receiver._eventChan: requests in flight
    resultQ,    \* the result queue: normalised result tuples
    errorQ,     \* the error queue: (exception class, reason) pairs
    cache,      \* Receiver._cache: topic -> last asynchronous result
    reactMap,   \* Receiver._reactMap: topic -> (func, rargs)
    rpc,        \* position of the worker running `while receiver.react()`
    rcall,      \* bookkeeping of the current (or last) call of react()
    epc,        \* position of each sending worker inside the Emitter
    cur,        \* the request each sending worker is waiting an answer for
    senders,    \* the workers calling through the Emitter
    repertoire, \* the requests the sending workers draw their calls from
    reactor,    \* the worker that calls Receiver.react()
    sent,       \* history: requests enqueued on the event queue, in order
    log,        \* history: requests dequeued by the Receiver and what it did
    calls,      \* history: Emitter calls that have completed, in order
    worker,     \* the Worker (thread) of the serving loop: created or started
    pending,    \* the events whose handling has begun and has not ended
    apc,        \* position of the thread calling the DriverArchitect
    ops,        \* history: the DriverArchitect calls made, in order
    tasks,      \* accountTasks: the queue of account names shared by the engines
    taken,      \* history: the account names pulled off accountTasks, in order
    arch,       \* the SyncArchitect objects, in the order they were created
    fold,       \* the folders architect of each SyncArchitect (foldersArch)
    eng,        \* the account engine running in the worker of each SyncArchitect
    sup,        \* the thread that runs SyncAccounts.run / SyncAccountsArchitect
    ea,         \* an EngineArchitect: its two drivers, its engine and its caller
    lk,         \* a lock of createLock() and the workers that call a WorkerSafe callable
    chan,       \* a queue, its producer and the consumers that iterate a Channel over it
    drun,       \* a DriverRunner: its driver and the react map of its receiver
    lg          \* the debug retention of an Emitter and of a Receiver

\* the variables of the driver worker and of its architect
driverVars == <<worker, pending, apc, ops>>

\* the variables of one EDMP link and of the driver behind it
linkVars == <<eventQ, resultQ, errorQ, cache, reactMap, rpc, rcall, epc, cur,
              senders, repertoire, reactor, sent, log, calls, driverVars>>

\* the variables of the account architects
accountVars == <<tasks, taken, arch, fold, eng, sup>>

\* the variables of the units that are followed on their own
unitVars == <<ea, lk, chan, drun, lg>>

\* what a step of the EngineArchitect leaves alone
exceptEa == <<linkVars, accountVars, lk, chan, drun, lg>>

\* what a step on the lock leaves alone
exceptLk == <<linkVars, accountVars, ea, chan, drun, lg>>

\* what a step on the channel leaves alone
exceptCh == <<linkVars, accountVars, ea, lk, drun, lg>>

\* what a step of the DriverRunner leaves alone
exceptDrun == <<linkVars, accountVars, ea, lk, chan, lg>>

\* what a step of the debug retention leaves alone
exceptLg == <<linkVars, accountVars, ea, lk, chan, drun>>

vars == <<linkVars, accountVars, unitVars>>

(***************************************************************************)
(* Bounds.                                                                 *)
(***************************************************************************)
MaxSends == 3

\* the number of Emitter calls made by the workers sharing one driver
MaxDriverSends == 2

\* the number of kill() and stop() calls made on the DriverArchitect
MaxOps == 1

\* the length of the list of account names
MaxAccounts == 2

\* the length of the list of account names when only start() is followed
MaxStartAccounts == 3

\* _SILENT_TIMES
SilentTimes == 100

\* the longest run of one topic that is sent or dispatched
MaxRun == 103

\* the number of build and logout requests a DriverRunner serves
MaxBuilds == 4

\* the number of items put on the queue that is iterated
MaxChannelPuts == 3

\* the number of iterations each consumer makes over the queue
MaxIterations == 2

\* the number of calls each worker makes of the WorkerSafe callable
MaxLockCalls == 2

\* the number of requests the engine of an EngineArchitect sends
MaxEngineSends == 2

\* the largest concurrency limit (max_sync_accounts)
MaxLimit == 2

(***************************************************************************)
(* Topics.  A topic is the string "cached_" + base + "_sync" where the     *)
(* prefix and the suffix are optional; the three parts are kept apart so   *)
(* that startswith/endswith and the two slices are computed, not assumed.  *)
(***************************************************************************)
Topic(pre, base, suf) == [pre |-> pre, base |-> base, suf |-> suf]

Plain(base) == Topic(FALSE, base, FALSE)

StartsWithCached(topic) == topic.pre

EndsWithSync(topic) == topic.suf

StripCached(topic) == [topic EXCEPT !.pre = FALSE]

StripSync(topic) == [topic EXCEPT !.suf = FALSE]

StopServing == Plain("stopServing")

StrHelp == Plain("str_help")

(***************************************************************************)
(* Python values crossing the link.  A value is a scalar (anything that is *)
(* not a tuple) or a tuple of scalars; `pick` tells whether pickle.dumps   *)
(* accepts it.                                                             *)
(***************************************************************************)
Scalar(v) == [tag |-> "scalar", v |-> v, pick |-> TRUE, elems |-> <<>>]

Opaque(v) == [tag |-> "scalar", v |-> v, pick |-> FALSE, elems |-> <<>>]

Tuple(elems) == [tag |-> "tuple", v |-> <<>>, pick |-> TRUE, elems |-> elems]

NoneVal == Scalar(<<"None">>)

IsTuple(val) == val.tag = "tuple"

Picklable(val) ==
    IF IsTuple(val) THEN \A i \in 1..Len(val.elems) : val.elems[i].pick
    ELSE val.pick

(***************************************************************************)
(* Outcome of running a piece of Python code: it returns a value or raises *)
(* an exception of class `cls` whose str() is `reason`; `ran` tells        *)
(* whether a registered handler was called to produce it.                  *)
(***************************************************************************)
Return(val) == [kind |-> "return", val |-> val, cls |-> "", reason |-> <<>>, ran |-> FALSE]

Raise(cls, reason) ==
    [kind |-> "raise", val |-> NoneVal, cls |-> cls, reason |-> reason, ran |-> FALSE]

NoOutcome == [kind |-> "none", val |-> NoneVal, cls |-> "", reason |-> <<>>, ran |-> FALSE]

\* the outcome of a handler that has actually been called
Invoked(out) == [out EXCEPT !.ran = TRUE]

\* pickle.dumps accepts a class only if it can be found by name: a class
\* defined locally in a function (LocalError) cannot be pickled.
ClassPicklable(cls) == cls # "LocalError"

(***************************************************************************)
(* The payloads a caller passes and the handlers the Receiver serves.  The *)
(* payload selects what the handler does with it, so that every kind of    *)
(* handler outcome is exercised.                                           *)
(***************************************************************************)
PayloadValue(arg) == IF arg = "lambda" THEN Opaque(<<arg>>) ELSE Scalar(<<arg>>)

Handler(func, args) ==
    LET a == args[Len(args)]
        me == <<func>> \o args
    IN  CASE a = "one"    -> Return(Scalar(me))
          [] a = "pair"   -> Return(Tuple(<<Scalar(me), Scalar(<<"80">>)>>))
          [] a = "single" -> Return(Tuple(<<Scalar(me)>>))
          [] a = "empty"  -> Return(Tuple(<<>>))
          [] a = "opaque" -> Return(Opaque(me))
          [] a = "bad"    -> Raise("ValueError", me)
          [] a = "topic"  -> Raise("TopicError", me)
          [] a = "local"  -> Raise("LocalError", me)
          [] OTHER        -> Return(NoneVal)

Req(topic, arg) == [topic |-> topic, arg |-> arg]

Async(base, arg) == Req(Plain(base), arg)

Sync(base, arg) == Req(Topic(FALSE, base, TRUE), arg)

Cached(base) == Req(Topic(TRUE, base, FALSE), "none")

CachedSync(base) == Req(Topic(TRUE, base, TRUE), "none")

\* The requests a sending worker may issue through the Emitter.  A sending
\* worker draws its calls from one of these repertoires.
ResultRequests ==
    {Async("connect", "one"), Async("connect", "pair"), Async("connect", "bad"),
     Async("getFolders", "one"), Cached("connect"), Cached("getFolders"),
     Sync("connect", "one"), Sync("connect", "pair"), Sync("connect", "single"),
     Sync("connect", "empty")}

FailureRequests ==
    {Async("connect", "one"), Async("connect", "bad"), Async("connect", "lambda"),
     Sync("connect", "bad"), Sync("connect", "topic"), Sync("connect", "local"),
     Sync("connect", "opaque"), Sync("connect", "lambda"), Async("noSuch", "none"),
     Sync("noSuch", "none"), Cached("connect"), Async("stopServing", "none")}

NamingRequests ==
    {Async("stopServing", "none"), Async("connect", "one"), Async("connect", "bad"),
     Async("connect", "opaque"), Sync("connect", "one"), Cached("connect"),
     CachedSync("connect"), Sync("str_help", "none"), Sync("ping", "one"),
     Sync("ping", "bad"), Async("noSuch", "none")}

Repertoires == {ResultRequests, FailureRequests, NamingRequests}

\* the requests the workers sharing a driver issue through its Emitter
\* emitter.stopServing(): the request that ends the serving loop
StopServingRequest == Async("stopServing", "none")

\* the requests the workers sharing a driver issue through its Emitter; an
\* architect that reuses the Emitter sends stopServing through it too
DriverRequests ==
    {Async("connect", "one"), Sync("connect", "one"), Sync("connect", "bad"),
     Sync("connect", "local"), StopServingRequest}

Requests == UNION Repertoires \cup DriverRequests

\* the table built by Receiver.accept() before serving starts
InitialReactMap ==
    LET names == {Plain("connect"), Plain("getFolders"), StopServing, Topic(FALSE, "ping", TRUE)}
    IN  [t \in names |->
            [func |-> t.base, rargs |-> IF t.base = "getFolders" THEN <<"left">> ELSE <<>>]]

(***************************************************************************)
(* Queue (src/imapfw/concurrency.py).                                      *)
(***************************************************************************)
\* a put that hands the data to the underlying queue before pickling it
QueuePutUnchecked(q, data, picklable) == Append(q, data)

\* a put that inserts at the head of the queue
QueuePutFront(q, data, picklable) == IF picklable THEN <<data>> \o q ELSE q

\* Queue.put: pickle.dumps(data) raises (picklable is FALSE) before the
\* data reaches the underlying queue; otherwise the data is appended
QueuePut(q, data, picklable) == IF picklable THEN Append(q, data) ELSE q

\* Queue.get_nowait: the oldest item, or None (no item) when empty
HasItem(q) == Len(q) > 0

\* a get that takes the newest item
GetNowaitNewest(q) == q[Len(q)]

GetNowait(q) == Head(q)

AfterGet(q) == Tail(q)

(***************************************************************************)
(* Receiver (src/imapfw/edmp.py).                                          *)
(***************************************************************************)
\* Receiver._react: prepend the registered args and call the handler
ReactCall(rm, topic, arg) ==
    Invoked(Handler(rm[topic].func, rm[topic].rargs \o <<arg>>))

\* Receiver._help: the docstrings of the registered handlers
Help(rm) == Scalar(<<"docstrings">>)

NoCachedReason(topic) == <<"is called while no cached value", topic.base>>

UnknownReason(topic) == <<"got unkown event", topic.base>>

\* the body of the inner try of react(): what a cached_/_sync topic resolves to
Resolve(rm, ch, topic, arg) ==
    IF StartsWithCached(topic)
    THEN LET t1 == StripCached(topic)
             realTopic == IF EndsWithSync(t1) THEN StripSync(t1) ELSE t1
         IN  IF realTopic \in DOMAIN ch
             THEN Return(ch[realTopic])
             ELSE Raise("TopicError", NoCachedReason(topic))
    ELSE LET realTopic == StripSync(topic)
         IN  IF realTopic \in DOMAIN rm THEN ReactCall(rm, realTopic, arg)
             ELSE IF realTopic = StrHelp THEN Return(Help(rm))
             ELSE Raise("TopicError", UnknownReason(topic))

\* a normalisation that wraps every result, tuples included
NormalizeResultAlwaysWrap(result) == <<result>>

\* "if type(result) != tuple: result = (result,)"
NormalizeResult(result) == IF ~IsTuple(result) THEN <<result>> ELSE result.elems

TuplePicklable(tup) == \A i \in 1..Len(tup) : Picklable(tup[i])

\* what one iteration of the loop of react() leaves behind:
\*   branch: the branch of react() taken, out: what the handler or the
\*   resolution did, q/tup/cls/reason: the entry put on the result or error
\*   queue ("none": nothing put), setCache: whether _cache[topic] is written,
\*   next: where the serving worker goes, ran: whether _react() was called
Effect(branch, out, q, tup, cls, reason, setCache, next) ==
    [branch |-> branch, out |-> out, q |-> q, tup |-> tup, cls |-> cls,
     reason |-> reason, setCache |-> setCache, next |-> next, ran |-> out.ran]

\* an "except Exception" clause that reports on the error queue whatever
\* the topic
OuterExceptAlwaysReports(branch, out, topic, cls, reason) ==
    IF ClassPicklable(cls)
    THEN Effect(branch, out, "error", <<>>, cls, reason, FALSE, "inloop")
    ELSE Effect(branch, out, "none", <<>>, "", <<>>, FALSE, "crashed")

\* an "except Exception" clause after which the cache entry of an
\* asynchronous topic holds what the failed call left
OuterExceptWritesCache(branch, out, topic, cls, reason) ==
    IF EndsWithSync(topic)
    THEN IF ClassPicklable(cls)
         THEN Effect(branch, out, "error", <<>>, cls, reason, branch = "async", "inloop")
         ELSE Effect(branch, out, "none", <<>>, "", <<>>, branch = "async", "crashed")
    ELSE Effect(branch, out, "none", <<>>, "", <<>>, branch = "async", "inloop")

\* the "except Exception" clause of react()
OuterExcept(branch, out, topic, cls, reason) ==
    IF EndsWithSync(topic)
    THEN IF ClassPicklable(cls)
         THEN Effect(branch, out, "error", <<>>, cls, reason, FALSE, "inloop")
         ELSE Effect(branch, out, "none", <<>>, "", <<>>, FALSE, "crashed")
    ELSE Effect(branch, out, "none", <<>>, "", <<>>, FALSE, "inloop")

\* which of the synchronous branches of react() a cached_/_sync topic takes
SyncBranch(rm, topic) ==
    IF StartsWithCached(topic) THEN "cached"
    ELSE IF StripSync(topic) \in DOMAIN rm THEN "sync"
    ELSE IF StripSync(topic) = StrHelp THEN "help"
    ELSE "unknown"

\* a stopServing that is logged but lets react() return True
StopEffectContinue == Effect("stop", NoOutcome, "none", <<>>, "", <<>>, FALSE, "idle")

\* "if topic == 'stopServing': return False"
StopEffect == Effect("stop", NoOutcome, "none", <<>>, "", <<>>, FALSE, "stopped")

\* an async mode that caches None when the handler raises
AsyncEffectCachesFailure(rm, topic, arg) ==
    LET out == ReactCall(rm, topic, arg)
    IN  IF out.kind = "return"
        THEN Effect("async", out, "none", <<>>, "", <<>>, TRUE, "idle")
        ELSE Effect("async", out, "none", <<>>, "", <<>>, TRUE, "inloop")

\* async mode: "self._cache[topic] = self._react(topic, args, kwargs); return True"
AsyncEffect(rm, topic, arg) ==
    LET out == ReactCall(rm, topic, arg)
    IN  IF out.kind = "return"
        THEN Effect("async", out, "none", <<>>, "", <<>>, TRUE, "idle")
        ELSE OuterExcept("async", out, topic, out.cls, out.reason)

\* sync modes that only log a failed resolution of the topic
SyncEffectDropsTopicError(rm, ch, topic, arg) ==
    LET out == Resolve(rm, ch, topic, arg)
        br == SyncBranch(rm, topic)
    IN  IF out.kind = "return"
        THEN LET tup == NormalizeResult(out.val)
             IN  IF TuplePicklable(tup)
                 THEN Effect(br, out, "result", tup, "", <<>>, FALSE, "idle")
                 ELSE OuterExcept(br, out, topic, "PicklingError", <<"cannot pickle">>)
        ELSE IF out.cls = "TopicError"
        THEN Effect(br, out, "none", <<>>, "", <<>>, FALSE, "inloop")
        ELSE OuterExcept(br, out, topic, out.cls, out.reason)

\* sync modes that also keep the result in the cache
SyncEffectCaches(rm, ch, topic, arg) ==
    LET out == Resolve(rm, ch, topic, arg)
        br == SyncBranch(rm, topic)
    IN  IF out.kind = "return"
        THEN LET tup == NormalizeResult(out.val)
             IN  IF TuplePicklable(tup)
                 THEN Effect(br, out, "result", tup, "", <<>>, TRUE, "idle")
                 ELSE OuterExcept(br, out, topic, "PicklingError", <<"cannot pickle">>)
        ELSE IF out.cls = "TopicError"
        THEN Effect(br, out, "error", <<>>, "AttributeError", out.reason, FALSE, "inloop")
        ELSE OuterExcept(br, out, topic, out.cls, out.reason)

\* sync modes: resolve, then put the normalised result on the result queue,
\* or the error on the error queue
SyncEffect(rm, ch, topic, arg) ==
    LET out == Resolve(rm, ch, topic, arg)
        br == SyncBranch(rm, topic)
    IN  IF out.kind = "return"
        THEN LET tup == NormalizeResult(out.val)
             IN  IF TuplePicklable(tup)
                 THEN Effect(br, out, "result", tup, "", <<>>, FALSE, "idle")
                 ELSE OuterExcept(br, out, topic, "PicklingError", <<"cannot pickle">>)
        ELSE IF out.cls = "TopicError"
        THEN Effect(br, out, "error", <<>>, "AttributeError", out.reason, FALSE, "inloop")
        ELSE OuterExcept(br, out, topic, out.cls, out.reason)

\* an unhandled topic that is also reported on the error queue
UnhandledEffectReportsError ==
    Effect("unhandled", NoOutcome, "error", <<>>, "AttributeError", <<"unhandled event">>,
           FALSE, "inloop")

\* neither registered nor a synchronous name: logged, then the loop goes on
UnhandledEffect == Effect("unhandled", NoOutcome, "none", <<>>, "", <<>>, FALSE, "inloop")

\* the body of the loop of react() for one event
ReactEvent(rm, ch, topic, arg) ==
    IF topic = StopServing THEN StopEffect
    ELSE IF topic \in DOMAIN rm THEN AsyncEffect(rm, topic, arg)
    ELSE IF StartsWithCached(topic) \/ EndsWithSync(topic) THEN SyncEffect(rm, ch, topic, arg)
    ELSE UnhandledEffect

\* "self._cache[topic] = <value>"
CacheWrite(ch, topic, val) ==
    [t \in DOMAIN ch \cup {topic} |-> IF t = topic THEN val ELSE ch[t]]

(***************************************************************************)
(* Emitter (src/imapfw/edmp.py).                                           *)
(***************************************************************************)
\* Emitter.__getattr__: cached_* and *_sync names get the blocking method
IsSyncName(topic) == StartsWithCached(topic) \/ EndsWithSync(topic)

RequestPicklable(req) == Picklable(PayloadValue(req.arg))

\* an unwrapping that always returns the first element
UnwrapFirst(result) ==
    IF Len(result) >= 1 THEN Return(result[1])
    ELSE Raise("IndexError", <<"tuple index out of range">>)

\* sync_event: "if len(result) > 1: return result; return result[0]"
Unwrap(result) ==
    IF Len(result) > 1 THEN Return(Tuple(result))
    ELSE IF Len(result) = 1 THEN Return(result[1])
    ELSE Raise("IndexError", <<"tuple index out of range">>)

\* _raiseError: "raise cls_Exception(reason)"
RaiseError(cls, reason) == Raise(cls, reason)

PicklingFailure == Raise("PicklingError", <<"cannot pickle">>)

(***************************************************************************)
(* State.                                                                  *)
(***************************************************************************)
Workers == {"w1"}

EmptyCache == [t \in {} |-> NoneVal]

NoRequest == [topic |-> Plain("none"), arg |-> "none"]

FreshCall == [pulled |-> 0, failed |-> 0, done |-> 0, asyncFail |-> FALSE, ret |-> "running"]

\* no account architect exists
NoSupervisor ==
    [pc |-> "none", names |-> <<>>, limit |-> 0, n |-> 0, loaded |-> 0, list |-> <<>>,
     iter |-> 0, exitCode |-> -1, ret |-> -1]

NoAccounts ==
    /\ tasks = <<>>
    /\ taken = <<>>
    /\ arch = <<>>
    /\ fold = <<>>
    /\ eng = <<>>
    /\ sup = NoSupervisor

\* no EngineArchitect is constructed
NoEngineArchitect ==
    [op |-> "none", step |-> 0, phase |-> "call", drv |-> <<>>,
     engine |-> [worker |-> "none", run |-> "none", sends |-> 0],
     hist |-> <<>>, done |-> <<>>, teardown |-> FALSE]

\* no lock is created
NoLock == [locked |-> FALSE, pc |-> <<>>, calls |-> <<>>, hist |-> <<>>]

\* no queue is iterated
NoChannel == [queue |-> <<>>, puts |-> 0, pc |-> <<>>, iters |-> <<>>, hist |-> <<>>]

\* no DriverRunner is constructed
NoDriverRunner ==
    [driver |-> 0, repositoryName |-> "none", reactMap |-> <<>>, builds |-> 0, calls |-> 0,
     last |-> [op |-> "none", reuse |-> FALSE, repository |-> "none"]]

\* no Emitter and no Receiver is followed for its debug lines
NoRetention == [emitter |-> <<>>, receiver |-> <<>>]

\* none of the units followed on their own is in use
NoUnits ==
    /\ ea = NoEngineArchitect
    /\ lk = NoLock
    /\ chan = NoChannel
    /\ drun = NoDriverRunner
    /\ lg = NoRetention

InitLink ==
    /\ NoUnits
    /\ eventQ = <<>>
    /\ resultQ = <<>>
    /\ errorQ = <<>>
    /\ cache = EmptyCache
    /\ reactMap = InitialReactMap
    /\ rpc = "idle"
    /\ rcall = [FreshCall EXCEPT !.ret = "none"]
    /\ epc = [w \in Workers |-> "idle"]
    /\ cur = [w \in Workers |-> [req |-> NoRequest, idx |-> 0]]
    /\ senders = Workers
    /\ repertoire \in Repertoires
    /\ sent = <<>>
    /\ log = <<>>
    /\ calls = <<>>
    /\ worker = "started"
    /\ pending = <<>>
    /\ apc = "idle"
    /\ ops = <<>>
    /\ NoAccounts

\* the Receiver is served by a worker of its own (newEmitterReceiver + createWorker)
Init == InitLink /\ reactor = "server"

\* the sending worker is also the one that calls react()
InitSame == InitLink /\ reactor = "w1"

InFlight == Cardinality({w \in senders : epc[w] # "idle"})

\* the calls the sending workers may make in all
SendBudget == IF reactor = "driver" THEN MaxDriverSends ELSE MaxSends

\* a sending worker is free to make a call; the workers that use the Emitter
\* of a driver run once the driver worker has been started
MaySend(w, req) ==
    /\ w \in senders /\ epc[w] = "idle"
    /\ req \in repertoire
    /\ worker = "started"
    /\ Len(calls) + InFlight < SendBudget

(***************************************************************************)
(* Emitter actions.                                                        *)
(***************************************************************************)
\* asyn(topic): send_event puts the request and the call returns None
SendAsync(w, req) ==
    /\ MaySend(w, req)
    /\ ~IsSyncName(req.topic)
    /\ eventQ' = QueuePut(eventQ, req, RequestPicklable(req))
    /\ sent' = IF RequestPicklable(req) THEN Append(sent, req) ELSE sent
    /\ calls' = Append(calls, [w |-> w, req |-> req,
                               idx |-> IF RequestPicklable(req) THEN Len(sent) + 1 ELSE 0,
                               out |-> IF RequestPicklable(req) THEN Return(NoneVal)
                                       ELSE PicklingFailure])
    /\ UNCHANGED <<resultQ, errorQ, cache, reactMap, rpc, rcall, epc, cur, senders, repertoire, reactor, log>>
    /\ UNCHANGED <<driverVars, accountVars, unitVars>>

\* sync(topic): send_event puts the request, then the caller polls
SendSync(w, req) ==
    /\ MaySend(w, req)
    /\ IsSyncName(req.topic)
    /\ eventQ' = QueuePut(eventQ, req, RequestPicklable(req))
    /\ IF RequestPicklable(req)
       THEN /\ sent' = Append(sent, req)
            /\ epc' = [epc EXCEPT ![w] = "pollError"]
            /\ cur' = [cur EXCEPT ![w] = [req |-> req, idx |-> Len(sent) + 1]]
            /\ calls' = calls
       ELSE /\ calls' = Append(calls, [w |-> w, req |-> req, idx |-> 0, out |-> PicklingFailure])
            /\ UNCHANGED <<sent, epc, cur>>
    /\ UNCHANGED <<resultQ, errorQ, cache, reactMap, rpc, rcall, senders, repertoire, reactor, log>>
    /\ UNCHANGED <<driverVars, accountVars, unitVars>>

\* "error = self._errorQueue.get_nowait()" finds nothing
PollErrorNone(w) ==
    /\ w \in senders /\ epc[w] = "pollError"
    /\ ~HasItem(errorQ)
    /\ epc' = [epc EXCEPT ![w] = "pollResult"]
    /\ UNCHANGED <<eventQ, resultQ, errorQ, cache, reactMap, rpc, rcall, cur, senders,
                   repertoire, reactor, sent, log, calls>>
    /\ UNCHANGED <<driverVars, accountVars, unitVars>>

\* an error entry is found: the call raises
PollErrorRaise(w) ==
    /\ w \in senders /\ epc[w] = "pollError"
    /\ HasItem(errorQ)
    /\ LET error == GetNowait(errorQ)
       IN  calls' = Append(calls, [w |-> w, req |-> cur[w].req, idx |-> cur[w].idx,
                                   out |-> RaiseError(error.cls, error.reason)])
    /\ errorQ' = AfterGet(errorQ)
    /\ epc' = [epc EXCEPT ![w] = "idle"]
    /\ cur' = [cur EXCEPT ![w] = [req |-> NoRequest, idx |-> 0]]
    /\ UNCHANGED <<eventQ, resultQ, cache, reactMap, rpc, rcall, senders, repertoire, reactor, sent, log>>
    /\ UNCHANGED <<driverVars, accountVars, unitVars>>

\* "result = self._resultQueue.get_nowait()" finds nothing: sleep and poll again
PollResultNone(w) ==
    /\ w \in senders /\ epc[w] = "pollResult"
    /\ ~HasItem(resultQ)
    /\ epc' = [epc EXCEPT ![w] = "pollError"]
    /\ UNCHANGED <<eventQ, resultQ, errorQ, cache, reactMap, rpc, rcall, cur, senders,
                   repertoire, reactor, sent, log, calls>>
    /\ UNCHANGED <<driverVars, accountVars, unitVars>>

\* a result entry is found: the call returns it, unwrapped
PollResultGot(w) ==
    /\ w \in senders /\ epc[w] = "pollResult"
    /\ HasItem(resultQ)
    /\ calls' = Append(calls, [w |-> w, req |-> cur[w].req, idx |-> cur[w].idx,
                               out |-> Unwrap(GetNowait(resultQ))])
    /\ resultQ' = AfterGet(resultQ)
    /\ epc' = [epc EXCEPT ![w] = "idle"]
    /\ cur' = [cur EXCEPT ![w] = [req |-> NoRequest, idx |-> 0]]
    /\ UNCHANGED <<eventQ, errorQ, cache, reactMap, rpc, rcall, senders, repertoire, reactor, sent, log>>
    /\ UNCHANGED <<driverVars, accountVars, unitVars>>

(***************************************************************************)
(* Receiver actions: the worker running "while receiver.react(): pass".    *)
(***************************************************************************)
\* Worker.start() has run the thread and the runner has not ended
WorkerRunning == worker = "started" /\ rpc \in {"idle", "inloop", "handling"}

\* the thread has ended: the serving loop returned or an exception left it
WorkerFinished == worker = "started" /\ rpc \in {"stopped", "crashed"}

\* a serving loop that would run while its worker is blocked in a call
CanReactWhileBlocked ==
    /\ worker = "started"
    /\ rpc \in {"idle", "inloop"}

\* the serving worker is inside its loop and is not blocked in a call of its own
CanReact ==
    /\ worker = "started"
    /\ rpc \in {"idle", "inloop"}
    /\ reactor \in senders => epc[reactor] = "idle"

\* the bookkeeping of the call of react() the next iteration belongs to
ThisCall == IF rpc = "idle" THEN FreshCall ELSE rcall

\* the event channel is exhausted: sleep and return True
ReactIdle ==
    /\ CanReact
    /\ ~HasItem(eventQ)
    /\ rpc' = "idle"
    /\ rcall' = [ThisCall EXCEPT !.ret = "True"]
    /\ UNCHANGED <<eventQ, resultQ, errorQ, cache, reactMap, epc, cur, senders,
                   repertoire, reactor, sent, log, calls>>
    /\ UNCHANGED <<driverVars, accountVars, unitVars>>

\* what the body of the loop of react() does to the Receiver for one event,
\* `call` being the bookkeeping of the call of react() it belongs to
ApplyEffect(event, eff, call) ==
    /\ cache' = IF eff.setCache THEN CacheWrite(cache, event.topic, eff.out.val)
                ELSE cache
    /\ resultQ' = IF eff.q = "result" THEN QueuePut(resultQ, eff.tup, TRUE) ELSE resultQ
    /\ errorQ' = IF eff.q = "error"
                 THEN QueuePut(errorQ, [cls |-> eff.cls, reason |-> eff.reason], TRUE)
                 ELSE errorQ
    /\ rpc' = eff.next
    /\ rcall' = [pulled |-> call.pulled + 1,
                 failed |-> call.failed + (IF eff.next = "inloop" THEN 1 ELSE 0),
                 done |-> call.done + (IF eff.next \in {"idle", "stopped"} THEN 1 ELSE 0),
                 asyncFail |-> call.asyncFail
                               \/ (eff.branch = "async" /\ eff.out.kind = "raise"
                                   /\ ~EndsWithSync(event.topic)),
                 ret |-> CASE eff.next = "idle" -> "True"
                           [] eff.next = "stopped" -> "False"
                           [] eff.next = "crashed" -> "raised"
                           [] OTHER -> "running"]
    /\ log' = Append(log, [req |-> event, branch |-> eff.branch, out |-> eff.out,
                           q |-> eff.q, tup |-> eff.tup, cls |-> eff.cls,
                           reason |-> eff.reason, next |-> eff.next,
                           ran |-> eff.ran])

\* one iteration of "for event in self._eventChan"
React ==
    /\ CanReact
    /\ HasItem(eventQ)
    /\ eventQ' = AfterGet(eventQ)
    /\ ApplyEffect(GetNowait(eventQ),
                   ReactEvent(reactMap, cache, GetNowait(eventQ).topic, GetNowait(eventQ).arg),
                   ThisCall)
    /\ UNCHANGED <<reactMap, epc, cur, senders, repertoire, reactor, sent, calls>>
    /\ UNCHANGED <<driverVars, accountVars, unitVars>>

\* a dispatcher that hands the event over and goes on with its loop
WhileHandlingDetached(pc) == pc

\* the serving worker runs the body of the loop itself ("func(*args)" is an
\* ordinary call): it is busy with the event until the handling ends
WhileHandling(pc) == "handling"

\* the same iteration in two steps, for handlers that take time: the event is
\* pulled from the channel and its handling begins ...
ReactBegin ==
    /\ CanReact
    /\ HasItem(eventQ)
    /\ eventQ' = AfterGet(eventQ)
    /\ pending' = Append(pending, [event |-> GetNowait(eventQ), call |-> ThisCall])
    /\ rpc' = WhileHandling(rpc)
    /\ UNCHANGED <<resultQ, errorQ, cache, reactMap, rcall, epc, cur, senders,
                   repertoire, reactor, sent, log, calls, worker, apc, ops>>
    /\ UNCHANGED <<accountVars, unitVars>>

\* ... and the handling ends: cache, queues and the continue flag are set
ReactEnd ==
    /\ HasItem(pending)
    /\ pending' = Tail(pending)
    /\ ApplyEffect(Head(pending).event,
                   ReactEvent(reactMap, cache, Head(pending).event.topic,
                              Head(pending).event.arg),
                   Head(pending).call)
    /\ UNCHANGED <<eventQ, reactMap, epc, cur, senders, repertoire, reactor, sent,
                   calls, worker, apc, ops>>
    /\ UNCHANGED <<accountVars, unitVars>>

(***************************************************************************)
(* DriverArchitect (src/imapfw/architects/driver.py) and the Worker it     *)
(* manages (src/imapfw/concurrency.py).                                    *)
(***************************************************************************)
\* the workers that share the Emitter of one driver
DriverWorkers == {"w1", "w2"}

\* a kill that ends the thread
WorkerKillTerminates(w) == "killed"

\* Worker.kill(): a debug line, the thread is left as it is
WorkerKill(w) == w

\* a join that does not wait for the thread
WorkerJoinNoWait(w, pc) == IF w = "created" THEN "raised" ELSE "returned"

\* Worker.join(): Thread.join() raises on a thread that was never started and
\* otherwise blocks until the thread is done
WorkerJoin(w, pc) ==
    IF w = "created" THEN "raised"
    ELSE IF pc \in {"stopped", "crashed"} THEN "returned"
    ELSE "blocked"

\* the record kept of a call made on the DriverArchitect
Op(op, state) == [op |-> op, state |-> state, sentAt |-> Len(sent), logAt |-> Len(log)]

StopOrKillOps == {i \in 1..Len(ops) : ops[i].op # "start"}

\* DriverArchitect.start(): worker.start()
DriverStart ==
    /\ apc = "idle"
    /\ worker = "created"
    /\ worker' = "started"
    /\ ops' = Append(ops, Op("start", "returned"))
    /\ UNCHANGED <<eventQ, resultQ, errorQ, cache, reactMap, rpc, rcall, epc, cur,
                   senders, repertoire, reactor, sent, log, calls, pending, apc>>
    /\ UNCHANGED <<accountVars, unitVars>>

\* DriverArchitect.kill(): emitter.stopServing(); worker.kill()
DriverKill ==
    /\ apc = "idle"
    /\ Cardinality(StopOrKillOps) < MaxOps
    /\ eventQ' = QueuePut(eventQ, StopServingRequest, RequestPicklable(StopServingRequest))
    /\ sent' = Append(sent, StopServingRequest)
    /\ worker' = WorkerKill(worker)
    /\ ops' = Append(ops, Op("kill", "returned"))
    /\ UNCHANGED <<resultQ, errorQ, cache, reactMap, rpc, rcall, epc, cur,
                   senders, repertoire, reactor, log, calls, pending, apc>>
    /\ UNCHANGED <<accountVars, unitVars>>

\* DriverArchitect.stop(), first statement: emitter.stopServing()
DriverStop ==
    /\ apc = "idle"
    /\ Cardinality(StopOrKillOps) < MaxOps
    /\ eventQ' = QueuePut(eventQ, StopServingRequest, RequestPicklable(StopServingRequest))
    /\ sent' = Append(sent, StopServingRequest)
    /\ apc' = "joining"
    /\ ops' = Append(ops, Op("stop", "joining"))
    /\ UNCHANGED <<resultQ, errorQ, cache, reactMap, rpc, rcall, epc, cur,
                   senders, repertoire, reactor, log, calls, worker, pending>>
    /\ UNCHANGED <<accountVars, unitVars>>

\* DriverArchitect.stop(), second statement: worker.join() returns or raises
DriverJoin ==
    /\ apc = "joining"
    /\ WorkerJoin(worker, rpc) # "blocked"
    /\ ops' = [ops EXCEPT ![Len(ops)].state = WorkerJoin(worker, rpc),
                          ![Len(ops)].logAt = Len(log)]
    /\ apc' = "idle"
    /\ UNCHANGED <<eventQ, resultQ, errorQ, cache, reactMap, rpc, rcall, epc, cur,
                   senders, repertoire, reactor, sent, log, calls, worker, pending>>
    /\ UNCHANGED <<accountVars, unitVars>>

\* DriverArchitect.init(): the link and the worker are created, not started
InitDriver ==
    /\ NoUnits
    /\ eventQ = <<>>
    /\ resultQ = <<>>
    /\ errorQ = <<>>
    /\ cache = EmptyCache
    /\ reactMap = InitialReactMap
    /\ rpc = "idle"
    /\ rcall = [FreshCall EXCEPT !.ret = "none"]
    /\ epc = [w \in DriverWorkers |-> "idle"]
    /\ cur = [w \in DriverWorkers |-> [req |-> NoRequest, idx |-> 0]]
    /\ senders = DriverWorkers
    /\ repertoire = DriverRequests
    /\ reactor = "driver"
    /\ sent = <<>>
    /\ log = <<>>
    /\ calls = <<>>
    /\ worker = "created"
    /\ pending = <<>>
    /\ apc = "idle"
    /\ ops = <<>>
    /\ NoAccounts

(***************************************************************************)
(* SyncArchitect and SyncAccountsArchitect                                 *)
(* (src/imapfw/architects/account.py), the account engine                  *)
(* (src/imapfw/engines/account.py) and the action that starts them         *)
(* (src/imapfw/actions/syncaccounts.py).                                   *)
(***************************************************************************)
Min(a, b) == IF a <= b THEN a ELSE b

Max(a, b) == IF a >= b THEN a ELSE b

\* "self._setExitCode(10)  # See manual."
SevereExitCode == 10

\* the engine's "self.setExitCode(10)  # See manual."
EngineFailureCode == 10

\* "return 99  # See manual."
NoChildSentinel == 99

\* the exit codes a folders architect ends with
FolderCodes == {0, 3}

\* the lists of account names given on the command line (at least one)
AccountLists == {SubSeq(<<"a", "b", "c", "d">>, 1, n) : n \in 1..MaxAccounts}

\* the lists of account names of the runs that are followed up to the
\* return of start()
StartLists == {SubSeq(<<"a", "b", "c", "d", "e">>, 1, n) : n \in 1..MaxStartAccounts}

\* the values of max_sync_accounts
Limits == 0..MaxLimit

\* an _setExitCode that overwrites
SetExitCodeAssign(old, exitCode) == exitCode

\* SyncArchitect._setExitCode: "self.exitCode = max(exitCode, self.exitCode)"
SetExitCode(old, exitCode) == Max(exitCode, old)

\* SyncEngine.setExitCode: the engine keeps the largest code it was given
EngineSetExitCode(old, exitCode) == Max(exitCode, old)

\* SyncEngine.checkExitCode: an engine that got no task ends with 0, one
\* that got tasks and set no code ends with the sentinel
EngineCheckExitCode(e) ==
    IF ~e.gotTask THEN EngineSetExitCode(e.exitCode, 0)
    ELSE IF e.exitCode < 0 THEN EngineSetExitCode(e.exitCode, NoChildSentinel)
    ELSE e.exitCode

\* a concurrency taken from the limit alone
MaxConcurrentAccountsUnbounded(limit, names) == limit

\* SyncAccounts.run: "min(runtime.rascal.getMaxSyncAccounts(), len(self.accountList))"
MaxConcurrentAccounts(limit, names) == Min(limit, Len(names))

\* the topics SyncArchitect.init() accepts
ArchReactMap ==
    [t \in {Plain("areSyncFoldersDone"), Plain("accountEngineDone"), Plain("syncFolders")} |->
        [func |-> t.base, rargs |-> <<>>]]

\* the requests the account engine sends to its referent
Event(req, code) == [topic |-> req.topic, arg |-> req.arg, code |-> code]

SyncFoldersEvent == Event(Sync("syncFolders", "none"), 0)

AreSyncFoldersDoneEvent == Event(Sync("areSyncFoldersDone", "none"), 0)

AccountEngineDoneEvent(code) == Event(Async("accountEngineDone", "none"), code)

\* SyncArchitect.__init__ and init(): busy, no folders architect, a new link
NewArchitect ==
    [exitCode |-> -1, foldersExitCode |-> -1, syncFoldersDone |-> FALSE,
     eventQ |-> <<>>, resultQ |-> <<>>, errorQ |-> <<>>, reported |-> -1,
     failed |-> FALSE, calls |-> <<>>]

NoFolders == [state |-> "none", code |-> -1]

\* SyncFoldersArchitect(...).start(...): the folders are being synced
RunningFolders == [state |-> "running", code |-> -1]

\* SyncFoldersArchitect.getExitCode: negative while the folders are syncing
FoldersExitCode(f) == f.code

\* the engine of a started SyncArchitect: about to pull its first task
NewEngine == [pc |-> "pull", exitCode |-> -1, gotTask |-> FALSE]

\* SyncFoldersArchitect(...) was assigned and its start() raised
BrokenFolders == [state |-> "broken", code |-> -1]

\* the calls _on_accountEngineDone makes after it set the exit code
TeardownCalls == <<"left.stop", "right.stop", "engineArch.stop">>

\* an accountEngineDone handler that leaves the folders exit code out
OnEventEngineCodeOnly(a, f, ev, startRaises) ==
    LET base == StripSync(ev.topic).base
    IN  CASE base = "syncFolders" ->
                [a |-> [a EXCEPT !.syncFoldersDone = FALSE],
                 f |-> IF startRaises THEN BrokenFolders ELSE RunningFolders,
                 ret |-> NoneVal, raised |-> startRaises]
          [] base = "areSyncFoldersDone" ->
                [a |-> a, f |-> f, ret |-> a.syncFoldersDone, raised |-> FALSE]
          [] OTHER ->
                [a |-> [a EXCEPT !.exitCode = SetExitCode(a.exitCode, ev.code),
                                 !.calls = a.calls \o TeardownCalls],
                 f |-> f, ret |-> NoneVal, raised |-> FALSE]

\* the handler react() runs for the event: what it does to the architect
\* and to its folders architect, and what it returns (`startRaises` telling
\* whether the start() of a folders architect raises)
OnEvent(a, f, ev, startRaises) ==
    LET base == StripSync(ev.topic).base
    IN  CASE base = "syncFolders" ->
                [a |-> [a EXCEPT !.syncFoldersDone = FALSE],
                 f |-> IF startRaises THEN BrokenFolders ELSE RunningFolders,
                 ret |-> NoneVal, raised |-> startRaises]
          [] base = "areSyncFoldersDone" ->
                [a |-> a, f |-> f, ret |-> a.syncFoldersDone, raised |-> FALSE]
          [] OTHER ->
                [a |-> [a EXCEPT !.exitCode =
                            SetExitCode(SetExitCode(a.exitCode, ev.code), a.foldersExitCode),
                                 !.calls = a.calls \o TeardownCalls],
                 f |-> f, ret |-> NoneVal, raised |-> FALSE]

\* self.receiver.react() in getExitCode: the events are dispatched as
\* Receiver.react dispatches them: the call ends at the first event whose
\* handler returns or with the queue, an event that is not handled is
\* dropped, and a handler that raises under _sync leaves its error on the
\* error queue; when that error cannot be put on the queue (its class
\* cannot be pickled, mode "reactRaises") the exception leaves react()
RECURSIVE ArchReact(_, _, _)
ArchReact(a, f, mode) ==
    IF ~HasItem(a.eventQ) THEN [a |-> a, f |-> f, escaped |-> FALSE]
    ELSE LET ev == GetNowait(a.eventQ)
             eff == ReactEvent(ArchReactMap, EmptyCache, ev.topic, ev.arg)
             on == OnEvent(a, f, ev, mode \in {"startRaises", "reactRaises"})
             a1 == [on.a EXCEPT !.eventQ = AfterGet(a.eventQ)]
         IN  IF ~eff.ran
             THEN ArchReact([a EXCEPT !.eventQ = AfterGet(a.eventQ)], f, mode)
             ELSE IF on.raised /\ mode = "reactRaises"
             THEN [a |-> a1, f |-> on.f, escaped |-> TRUE]
             ELSE IF on.raised
             THEN ArchReact([a1 EXCEPT !.errorQ =
                                QueuePut(a1.errorQ, <<"Exception", "start">>, TRUE)],
                            on.f, mode)
             ELSE IF eff.q = "result"
             THEN [a |-> [a1 EXCEPT !.resultQ = QueuePut(a1.resultQ, <<on.ret>>, TRUE)],
                   f |-> on.f, escaped |-> FALSE]
             ELSE [a |-> a1, f |-> on.f, escaped |-> FALSE]

\* the calls the except clause makes before it sets the exit code
KillCalls(f) ==
    IF f.state = "none" THEN <<"engineArch.kill">>
    ELSE <<"engineArch.kill", "foldersArch.kill">>

\* an except clause that lets the exception go: no exit code is set
ExceptClauseEscapes(a, f) ==
    [a |-> [a EXCEPT !.failed = TRUE], f |-> f]

\* the except clause of getExitCode: both kills only signal, so that the
\* folders architect is left as it is
ExceptClause(a, f) ==
    [a |-> [a EXCEPT !.exitCode = SetExitCode(a.exitCode, SevereExitCode),
                     !.failed = TRUE,
                     !.calls = a.calls \o KillCalls(f)],
     f |-> f]

\* a poll that takes the folders for done as soon as their architect exists
PollFoldersEager(a, f, pollRaises) ==
    IF f.state = "none" THEN [a |-> a, f |-> f]
    ELSE IF pollRaises THEN ExceptClause(a, f)
    ELSE [a |-> [a EXCEPT !.syncFoldersDone = TRUE,
                          !.foldersExitCode = Max(FoldersExitCode(f), a.foldersExitCode)],
          f |-> NoFolders]

\* the rest of the try block of getExitCode (`pollRaises` telling whether
\* polling the folders architect raises)
PollFolders(a, f, pollRaises) ==
    IF f.state = "none" THEN [a |-> a, f |-> f]
    ELSE IF pollRaises THEN ExceptClause(a, f)
    ELSE IF FoldersExitCode(f) >= 0
    THEN [a |-> [a EXCEPT !.syncFoldersDone = TRUE,
                          !.foldersExitCode = Max(FoldersExitCode(f), a.foldersExitCode)],
          f |-> NoFolders]
    ELSE [a |-> a, f |-> f]

\* what happens during one poll: nothing, the start() of a folders
\* architect raises and the engine is told, it raises and the exception
\* leaves react(), or the poll of the folders architect raises
PollOutcomes == {"ok", "startRaises", "reactRaises", "pollRaises"}

\* the handler of accountEngineDone stops the engine architect: it joins
\* the worker of the engine
JoinsEngine(a) ==
    /\ HasItem(a.eventQ)
    /\ GetNowait(a.eventQ).topic = Plain("accountEngineDone")

\* a stop of the engine architect that does not wait for the engine
EngineJoinNoWait(e) == "returned"

\* EngineArchitect.stop -> Architect.stop: "self.worker.join()" (the stop of
\* the two drivers that comes first can only delay the return further)
EngineJoin(e) == WorkerJoin("started", IF e.pc = "finished" THEN "stopped" ELSE "idle")

\* SyncArchitect.getExitCode(); `calls` keeps the calls this poll made on
\* the engine architect and on the folders architect
GetExitCode(k, outcome) ==
    /\ JoinsEngine(arch[k]) => EngineJoin(eng[k]) = "returned"
    /\ outcome \in {"startRaises", "reactRaises"} =>
          /\ HasItem(arch[k].eventQ)
          /\ GetNowait(arch[k].eventQ).topic = Sync("syncFolders", "none").topic
    /\ outcome = "pollRaises" => ArchReact(arch[k], fold[k], "ok").f.state # "none"
    /\ LET r == ArchReact([arch[k] EXCEPT !.calls = <<>>], fold[k], outcome)
           p == IF r.escaped THEN ExceptClause(r.a, r.f)
                ELSE PollFolders(r.a, r.f, outcome = "pollRaises")
       IN  /\ arch' = [arch EXCEPT ![k] = [p.a EXCEPT !.reported = p.a.exitCode]]
           /\ fold' = [fold EXCEPT ![k] = p.f]

\* the folders architect of k ends with an exit code
FoldersFinish(k, code) ==
    /\ k \in 1..Len(fold)
    /\ fold[k].state = "running"
    /\ code \in FolderCodes
    /\ fold' = [fold EXCEPT ![k] = [state |-> "done", code |-> code]]
    /\ UNCHANGED <<tasks, arch, eng, sup>>
    /\ UNCHANGED <<taken, linkVars, unitVars>>

(***************************************************************************)
(* The account engine (SyncAccounts.run of src/imapfw/engines/account.py). *)
(***************************************************************************)
\* a pull that leaves the name on the queue
PullsTaskPeek(k) ==
    /\ k \in 1..Len(eng)
    /\ eng[k].pc = "pull"
    /\ HasItem(tasks)
    /\ tasks' = tasks
    /\ taken' = Append(taken, GetNowait(tasks))

\* "for accountName in Channel(taskQueue)": the next account name is pulled
\* off the shared queue without blocking
PullsTask(k) ==
    /\ k \in 1..Len(eng)
    /\ eng[k].pc = "pull"
    /\ HasItem(tasks)
    /\ tasks' = AfterGet(tasks)
    /\ taken' = Append(taken, GetNowait(tasks))

\* an account is pulled and _syncAccount raises before it asks for the
\* folders to be synced
EngineFails(k) ==
    /\ PullsTask(k)
    /\ eng' = [eng EXCEPT ![k].gotTask = TRUE,
                          ![k].exitCode = EngineSetExitCode(@, EngineFailureCode)]
    /\ UNCHANGED <<arch, fold, sup>>
    /\ UNCHANGED <<linkVars, unitVars>>

\* an account is pulled and _syncAccount finds no folder to sync
EngineNoFolder(k) ==
    /\ PullsTask(k)
    /\ eng' = [eng EXCEPT ![k].gotTask = TRUE,
                          ![k].exitCode = EngineSetExitCode(@, 0)]
    /\ UNCHANGED <<arch, fold, sup>>
    /\ UNCHANGED <<linkVars, unitVars>>

\* an account is pulled and "self.referent.syncFolders_sync(...)" is sent
EngineSyncFolders(k) ==
    /\ PullsTask(k)
    /\ eng' = [eng EXCEPT ![k].gotTask = TRUE, ![k].pc = "waitStart"]
    /\ arch' = [arch EXCEPT ![k].eventQ = QueuePut(@, SyncFoldersEvent, TRUE)]
    /\ UNCHANGED <<fold, sup>>
    /\ UNCHANGED <<linkVars, unitVars>>

\* syncFolders_sync raises the error of the handler: the account has failed
EngineStartFailed(k) ==
    /\ k \in 1..Len(eng)
    /\ eng[k].pc = "waitStart"
    /\ HasItem(arch[k].errorQ)
    /\ eng' = [eng EXCEPT ![k].pc = "pull",
                          ![k].exitCode = EngineSetExitCode(@, EngineFailureCode)]
    /\ arch' = [arch EXCEPT ![k].errorQ = AfterGet(@)]
    /\ UNCHANGED <<tasks, fold, sup>>
    /\ UNCHANGED <<taken, linkVars, unitVars>>

\* syncFolders_sync returns; "self.referent.areSyncFoldersDone_sync()" is sent
EngineAsksDone(k) ==
    /\ k \in 1..Len(eng)
    /\ eng[k].pc = "waitStart"
    /\ HasItem(arch[k].resultQ)
    /\ eng' = [eng EXCEPT ![k].pc = "waitDone"]
    /\ arch' = [arch EXCEPT ![k].resultQ = AfterGet(@),
                            ![k].eventQ = QueuePut(@, AreSyncFoldersDoneEvent, TRUE)]
    /\ UNCHANGED <<tasks, fold, sup>>
    /\ UNCHANGED <<taken, linkVars, unitVars>>

\* areSyncFoldersDone_sync returns: True ends the account, anything else
\* makes the engine ask again
EngineGotDone(k) ==
    /\ k \in 1..Len(eng)
    /\ eng[k].pc = "waitDone"
    /\ HasItem(arch[k].resultQ)
    /\ IF Unwrap(GetNowait(arch[k].resultQ)).val = TRUE
       THEN /\ eng' = [eng EXCEPT ![k].pc = "pull",
                                  ![k].exitCode = EngineSetExitCode(@, 0)]
            /\ arch' = [arch EXCEPT ![k].resultQ = AfterGet(@)]
       ELSE /\ eng' = eng
            /\ arch' = [arch EXCEPT ![k].resultQ = AfterGet(@),
                                    ![k].eventQ = QueuePut(@, AreSyncFoldersDoneEvent, TRUE)]
    /\ UNCHANGED <<tasks, fold, sup>>
    /\ UNCHANGED <<taken, linkVars, unitVars>>

\* the channel is exhausted: checkExitCode, then accountEngineDone is sent
EngineDone(k) ==
    /\ k \in 1..Len(eng)
    /\ eng[k].pc = "pull"
    /\ ~HasItem(tasks)
    /\ eng' = [eng EXCEPT ![k].pc = "sent", ![k].exitCode = EngineCheckExitCode(eng[k])]
    /\ arch' = [arch EXCEPT ![k].eventQ =
                    QueuePut(@, AccountEngineDoneEvent(EngineCheckExitCode(eng[k])), TRUE)]
    /\ UNCHANGED <<tasks, fold, sup>>
    /\ UNCHANGED <<taken, linkVars, unitVars>>

\* run() returns: the worker of the engine ends
EngineExit(k) ==
    /\ k \in 1..Len(eng)
    /\ eng[k].pc = "sent"
    /\ eng' = [eng EXCEPT ![k].pc = "finished"]
    /\ UNCHANGED <<tasks, arch, fold, sup>>
    /\ UNCHANGED <<taken, linkVars, unitVars>>

(***************************************************************************)
(* SyncAccounts.run (the action) and SyncAccountsArchitect.                *)
(***************************************************************************)
\* SyncAccounts.run: the concurrency is computed, SyncAccountsArchitect is
\* created and its start() is entered
ActionRun ==
    /\ sup.pc = "new"
    /\ sup' = [sup EXCEPT !.pc = "loading",
                          !.n = MaxConcurrentAccounts(sup.limit, sup.names)]
    /\ UNCHANGED <<tasks, arch, fold, eng>>
    /\ UNCHANGED <<taken, linkVars, unitVars>>

\* a start() that goes on to the workers as soon as the queue is not empty
LoadTaskEarly ==
    /\ sup.pc = "loading"
    /\ IF ~HasItem(tasks)
       THEN /\ tasks' = QueuePut(tasks, sup.names[sup.loaded + 1], TRUE)
            /\ sup' = [sup EXCEPT !.loaded = @ + 1]
       ELSE /\ tasks' = tasks
            /\ sup' = [sup EXCEPT !.pc = "spawning"]
    /\ UNCHANGED <<arch, fold, eng>>
    /\ UNCHANGED <<taken, linkVars, unitVars>>

\* start(): "for name in self.accountList: accountTasks.put(name)"
LoadTask ==
    /\ sup.pc = "loading"
    /\ IF sup.loaded < Len(sup.names)
       THEN /\ tasks' = QueuePut(tasks, sup.names[sup.loaded + 1], TRUE)
            /\ sup' = [sup EXCEPT !.loaded = @ + 1]
       ELSE /\ HasItem(tasks)
            /\ tasks' = tasks
            /\ sup' = [sup EXCEPT !.pc = "spawning"]
    /\ UNCHANGED <<arch, fold, eng>>
    /\ UNCHANGED <<taken, linkVars, unitVars>>

\* start(): one turn of "for i in range(maxConcurrentAccounts)": the
\* SyncArchitect is created, initialised and started, or the loop ends
SpawnArchitect ==
    /\ sup.pc = "spawning"
    /\ IF Len(arch) < sup.n
       THEN /\ arch' = Append(arch, NewArchitect)
            /\ fold' = Append(fold, NoFolders)
            /\ eng' = Append(eng, NewEngine)
            /\ sup' = [sup EXCEPT !.list = Append(@, Len(arch) + 1)]
       ELSE /\ sup' = [sup EXCEPT !.pc = "running"]
            /\ UNCHANGED <<arch, fold, eng>>
    /\ UNCHANGED tasks
    /\ UNCHANGED <<taken, linkVars, unitVars>>

\* list.remove of the element at position i
RemoveAt(list, i) == SubSeq(list, 1, i - 1) \o SubSeq(list, i + 1, Len(list))

\* a monitor that keeps the last exit code it saw
RunAggregateLast(old, exitCode) == exitCode

\* run(): "if exitCode > self.exitCode: self.exitCode = exitCode"
RunAggregate(old, exitCode) == IF exitCode > old THEN exitCode ELSE old

\* run(): one turn of "for architect in self.syncArchs": the architect under
\* the iterator is polled and, when resolved, removed from the list
RunPoll(outcome) ==
    /\ sup.pc = "running"
    /\ sup.iter < Len(sup.list)
    /\ LET k == sup.list[sup.iter + 1]
       IN  /\ GetExitCode(k, outcome)
           /\ sup' = IF arch'[k].reported >= 0
                     THEN [sup EXCEPT !.iter = @ + 1,
                                      !.exitCode = RunAggregate(@, arch'[k].reported),
                                      !.list = RemoveAt(@, sup.iter + 1)]
                     ELSE [sup EXCEPT !.iter = @ + 1]
    /\ UNCHANGED <<tasks, eng>>
    /\ UNCHANGED <<taken, linkVars, unitVars>>

\* run(): the for loop is exhausted: "while len(self.syncArchs) > 0" starts
\* it again, or run() returns
RunWrap ==
    /\ sup.pc = "running"
    /\ sup.iter >= Len(sup.list)
    /\ sup' = IF Len(sup.list) > 0
              THEN [sup EXCEPT !.iter = 0]
              ELSE [sup EXCEPT !.pc = "returned",
                               !.ret = IF sup.exitCode < 0 THEN NoChildSentinel
                                       ELSE sup.exitCode]
    /\ UNCHANGED <<tasks, arch, fold, eng>>
    /\ UNCHANGED <<taken, linkVars, unitVars>>

\* a caller that monitors one SyncArchitect by polling it as it pleases
CallerPoll(k, outcome) ==
    /\ sup.pc = "caller"
    /\ k \in 1..Len(arch)
    /\ GetExitCode(k, outcome)
    /\ UNCHANGED <<tasks, eng, sup>>
    /\ UNCHANGED <<taken, linkVars, unitVars>>

\* no link is modelled beside the ones of the architects
IdleLink ==
    /\ eventQ = <<>>
    /\ resultQ = <<>>
    /\ errorQ = <<>>
    /\ cache = EmptyCache
    /\ reactMap = ArchReactMap
    /\ rpc = "idle"
    /\ rcall = [FreshCall EXCEPT !.ret = "none"]
    /\ epc = [w \in {} |-> "idle"]
    /\ cur = [w \in {} |-> [req |-> NoRequest, idx |-> 0]]
    /\ senders = {}
    /\ repertoire = {}
    /\ reactor = "supervisor"
    /\ sent = <<>>
    /\ log = <<>>
    /\ calls = <<>>
    /\ worker = "created"
    /\ pending = <<>>
    /\ apc = "idle"
    /\ ops = <<>>

\* the syncAccounts action is about to run with its accounts and its limit
InitAccounts ==
    /\ IdleLink
    /\ NoUnits
    /\ tasks = <<>>
    /\ taken = <<>>
    /\ arch = <<>>
    /\ fold = <<>>
    /\ eng = <<>>
    /\ \E names \in AccountLists, limit \in Limits :
          sup = [NoSupervisor EXCEPT !.pc = "new", !.names = names, !.limit = limit]

\* the syncAccounts action is about to run with a longer list of accounts
InitStart ==
    /\ IdleLink
    /\ NoUnits
    /\ tasks = <<>>
    /\ taken = <<>>
    /\ arch = <<>>
    /\ fold = <<>>
    /\ eng = <<>>
    /\ \E names \in StartLists, limit \in Limits :
          sup = [NoSupervisor EXCEPT !.pc = "new", !.names = names, !.limit = limit]

\* one SyncArchitect, initialised and started on a loaded task queue, and
\* monitored by its caller
InitArchitect ==
    /\ IdleLink
    /\ NoUnits
    /\ tasks \in AccountLists
    /\ taken = <<>>
    /\ arch = <<NewArchitect>>
    /\ fold = <<NoFolders>>
    /\ eng = <<NewEngine>>
    /\ sup = [NoSupervisor EXCEPT !.pc = "caller"]

(***************************************************************************)
(* EngineArchitect (src/imapfw/architects/engine.py) with the two          *)
(* DriverArchitect of its DriversArchitect and the Architect of its        *)
(* engine.  `hist` keeps the calls made on the three, in order.            *)
(***************************************************************************)
\* DriverArchitect.init(): a link and a worker that is not started
NewDriver == [worker |-> "created", q |-> <<>>, run |-> "new"]

\* EngineArchitect.init(): Architect(workerName) has no worker yet and
\* DriversArchitect(workerName, 2).init() has built the two drivers
NewEngineArchitect ==
    [NoEngineArchitect EXCEPT !.op = "idle", !.drv = <<NewDriver, NewDriver>>]

\* the position of driver i of DriversArchitect.driverArchitects in `drv`
DriverIndex(target) == IF target = "driver0" THEN 1 ELSE 2

\* a start() that starts the engine worker first
StartStepsEngineFirst == <<"engine", "driver0", "driver1">>

\* EngineArchitect.start: "self.drivers.start()" then "self.architect.start(...)"
StartSteps == <<"driver0", "driver1", "engine">>

\* EngineArchitect.stop: "self.drivers.stop()" then "self.architect.stop()"
StopSteps == <<"driver0", "driver1", "engine">>

\* EngineArchitect.kill: "self.drivers.kill()" then "self.architect.kill()"
KillSteps == <<"driver0", "driver1", "engine">>

Steps(op) ==
    CASE op = "start" -> StartSteps
      [] op = "stop" -> StopSteps
      [] OTHER -> KillSteps

EaDone(op) == \E i \in 1..Len(ea.done) : ea.done[i] = op

\* the thread that owns the EngineArchitect calls start(), stop() or kill()
EaCall(op) ==
    /\ ea.op = "idle"
    /\ ~EaDone(op)
    /\ op = "start" => ~EaDone("stop")
    /\ op = "stop" => EaDone("start")
    /\ op = "kill" => ~EaDone("stop")
    /\ ea' = [ea EXCEPT !.op = op, !.step = 1, !.phase = "call"]
    /\ UNCHANGED exceptEa

\* the method goes on to its next statement, or returns
EaAdvance(e) ==
    IF e.step < Len(Steps(e.op))
    THEN [e EXCEPT !.step = @ + 1, !.phase = "call"]
    ELSE [e EXCEPT !.op = "idle", !.step = 0, !.phase = "call", !.done = Append(@, e.op)]

\* the method is left by an exception
EaRaise(e) ==
    [e EXCEPT !.op = "idle", !.step = 0, !.phase = "call",
              !.done = Append(@, e.op), !.hist = Append(@, <<e.op, "raised">>)]

EaTarget == Steps(ea.op)[ea.step]

\* DriverArchitect.start(): "self.worker.start()"
EaStartDriver ==
    /\ ea.op = "start" /\ EaTarget # "engine"
    /\ LET i == DriverIndex(EaTarget)
       IN  ea' = EaAdvance([ea EXCEPT !.drv[i].worker = "started",
                                      !.hist = Append(@, <<"start", EaTarget>>)])
    /\ UNCHANGED exceptEa

\* Architect.start(): the engine worker is created and started
EaStartEngine ==
    /\ ea.op = "start" /\ EaTarget = "engine"
    /\ ea' = EaAdvance([ea EXCEPT !.engine.worker = "started", !.engine.run = "running",
                                  !.hist = Append(@, <<"start", "engine">>)])
    /\ UNCHANGED exceptEa

\* DriverArchitect.kill(): "self.emitter.stopServing()" and a kill that
\* only logs
EaKillDriver ==
    /\ ea.op = "kill" /\ EaTarget # "engine"
    /\ LET i == DriverIndex(EaTarget)
       IN  ea' = EaAdvance([ea EXCEPT !.drv[i].q = Append(@, "stopServing"),
                                      !.drv[i].worker = WorkerKill(@),
                                      !.hist = Append(@, <<"kill", EaTarget>>)])
    /\ UNCHANGED exceptEa

\* Architect.kill(): "self.worker.kill()" only logs; self.worker is None
\* until start() and the call then raises
EaKillEngine ==
    /\ ea.op = "kill" /\ EaTarget = "engine"
    /\ ea' = IF ea.engine.worker = "none" THEN EaRaise(ea)
             ELSE EaAdvance([ea EXCEPT !.engine.worker = WorkerKill(@),
                                       !.hist = Append(@, <<"kill", "engine">>)])
    /\ UNCHANGED exceptEa

\* a stop() that joins the worker without telling it to stop serving
EaStopDriverNoSignal ==
    /\ ea.op = "stop" /\ EaTarget # "engine" /\ ea.phase = "call"
    /\ ea' = [ea EXCEPT !.phase = "join", !.hist = Append(@, <<"stop", EaTarget>>)]
    /\ UNCHANGED exceptEa

\* DriverArchitect.stop(), first statement: "self.emitter.stopServing()"
EaStopDriver ==
    /\ ea.op = "stop" /\ EaTarget # "engine" /\ ea.phase = "call"
    /\ LET i == DriverIndex(EaTarget)
       IN  ea' = [ea EXCEPT !.drv[i].q = Append(@, "stopServing"),
                            !.phase = "join",
                            !.hist = Append(@, <<"stop", EaTarget>>)]
    /\ UNCHANGED exceptEa

\* DriverArchitect.stop(), second statement: "self.worker.join()" returns
EaJoinDriver ==
    /\ ea.op = "stop" /\ EaTarget # "engine" /\ ea.phase = "join"
    /\ LET d == ea.drv[DriverIndex(EaTarget)]
       IN  WorkerJoin(d.worker, d.run) = "returned"
    /\ ea' = EaAdvance(ea)
    /\ UNCHANGED exceptEa

\* Architect.stop(): "self.worker.join()" is called on the engine worker
EaStopEngine ==
    /\ ea.op = "stop" /\ EaTarget = "engine" /\ ea.phase = "call"
    /\ ea' = [ea EXCEPT !.phase = "join", !.hist = Append(@, <<"stop", "engine">>)]
    /\ UNCHANGED exceptEa

\* the join of the engine worker returns
EaJoinEngine ==
    /\ ea.op = "stop" /\ EaTarget = "engine" /\ ea.phase = "join"
    /\ WorkerJoin(ea.engine.worker,
                  IF ea.engine.run = "finished" THEN "stopped" ELSE "idle") = "returned"
    /\ ea' = EaAdvance(ea)
    /\ UNCHANGED exceptEa

\* the worker of driver i serves one event: stopServing ends its loop
DriverServes(i) ==
    /\ i \in 1..Len(ea.drv)
    /\ ea.drv[i].worker = "started"
    /\ ea.drv[i].run # "stopped"
    /\ HasItem(ea.drv[i].q)
    /\ ea' = [ea EXCEPT !.drv[i].q = AfterGet(@),
                        !.drv[i].run = IF GetNowait(ea.drv[i].q) = "stopServing"
                                       THEN "stopped" ELSE "serving"]
    /\ UNCHANGED exceptEa

\* the engine sends a request through the emitter of driver i
EngineSends(i) ==
    /\ i \in 1..Len(ea.drv)
    /\ ea.engine.run = "running"
    /\ ea.engine.sends < MaxEngineSends
    /\ ea' = [ea EXCEPT !.drv[i].q = Append(@, "request"), !.engine.sends = @ + 1,
                        !.hist = Append(@, <<"send", IF i = 1 THEN "driver0" ELSE "driver1">>)]
    /\ UNCHANGED exceptEa

\* SyncAccounts.run, last statement: the task queue is drained and
\* "self.referent.accountEngineDone(self.getExitCode())" is sent, an event
\* that waits for no answer
EngineSendsDone ==
    /\ ea.engine.run = "running"
    /\ ea' = [ea EXCEPT !.engine.run = "done"]
    /\ UNCHANGED exceptEa

\* the runner of the engine returns
EngineReturns ==
    /\ ea.engine.run \in {"running", "done"}
    /\ ea' = [ea EXCEPT !.engine.run = "finished"]
    /\ UNCHANGED exceptEa

\* SyncArchitect._on_accountEngineDone, run by the thread that polls
\* getExitCode: "getLeftEmitter().stop()" and "getRightEmitter().stop()"
\* send the event `stop` to each driver, then "self.engineArch.stop()" is
\* entered
EaTeardown ==
    /\ ea.op = "idle"
    /\ ea.engine.run \in {"done", "finished"}
    /\ ~EaDone("stop")
    /\ ea' = [ea EXCEPT !.drv[1].q = Append(@, "stop"),
                        !.drv[2].q = Append(@, "stop"),
                        !.op = "stop", !.step = 1, !.phase = "call",
                        !.teardown = TRUE]
    /\ UNCHANGED exceptEa

\* an EngineArchitect after init()
InitEngineArchitect ==
    /\ IdleLink
    /\ NoAccounts
    /\ ea = NewEngineArchitect
    /\ lk = NoLock
    /\ chan = NoChannel
    /\ drun = NoDriverRunner
    /\ lg = NoRetention

(***************************************************************************)
(* Lock and WorkerSafe (src/imapfw/concurrency.py): LockWorkers workers    *)
(* call one callable wrapped with WorkerSafe(lock), lock = createLock().   *)
(* `hist` keeps who entered and how each call ended, in order.             *)
(***************************************************************************)
LockWorkers == 1..2

\* how the protected callable ends
FuncOutcomes == {"return", "raise"}

\* createLock(): Lock(TLock()), a threading.Lock that starts unlocked
NewLock ==
    [locked |-> FALSE, pc |-> [w \in LockWorkers |-> "idle"],
     calls |-> [w \in LockWorkers |-> 0], hist |-> <<>>]

\* an __exit__ that releases only when the block has not raised
LockExitOnReturnOnly(locked, outcome) == outcome = "raise"

\* Lock.__exit__(t, v, tb): "self.lock.release()", whatever t is
LockExit(locked, outcome) == FALSE

\* a worker calls safeFunc and reaches "with lock:"
SafeFuncCalled(w) ==
    /\ lk.pc[w] = "idle"
    /\ lk.calls[w] < MaxLockCalls
    /\ lk' = [lk EXCEPT !.pc[w] = "enter", !.calls[w] = @ + 1]
    /\ UNCHANGED exceptLk

\* Lock.__enter__: "self.lock.acquire()" blocks until the lock is free
LockEnter(w) ==
    /\ lk.pc[w] = "enter"
    /\ ~lk.locked
    /\ lk' = [lk EXCEPT !.locked = TRUE, !.pc[w] = "inside",
                        !.hist = Append(@, <<w, "enter">>)]
    /\ UNCHANGED exceptLk

\* "values = func(*args, **kwargs)" returns or raises
FuncEnds(w, outcome) ==
    /\ lk.pc[w] = "inside"
    /\ lk' = [lk EXCEPT !.pc[w] = outcome, !.hist = Append(@, <<w, outcome>>)]
    /\ UNCHANGED exceptLk

\* the with statement calls __exit__ and safeFunc returns or lets the
\* exception through
LockLeave(w) ==
    /\ lk.pc[w] \in FuncOutcomes
    /\ lk' = [lk EXCEPT !.locked = LockExit(lk.locked, lk.pc[w]), !.pc[w] = "idle"]
    /\ UNCHANGED exceptLk

\* a lock just created and workers that have not called yet
InitLock ==
    /\ IdleLink
    /\ NoAccounts
    /\ ea = NoEngineArchitect
    /\ lk = NewLock
    /\ chan = NoChannel
    /\ drun = NoDriverRunner
    /\ lg = NoRetention

(***************************************************************************)
(* Channel (src/imapfw/edmp.py) over one Queue: a producer puts the items  *)
(* of ChannelItems and ChannelConsumers threads iterate Channel(queue),    *)
(* each                                                                    *)
(* several times.  `hist` keeps the puts, the items yielded and the ends   *)
(* of the iterations, in order.                                            *)
(***************************************************************************)
ChannelConsumers == 1..2

\* what the producer puts, in this order: account names, folders or events,
\* never None
ChannelItems == <<"a", "b", "c", "d", "e">>

\* a queue just created, nobody iterating
NewChannel ==
    [queue |-> <<>>, puts |-> 0, pc |-> [c \in ChannelConsumers |-> "idle"],
     iters |-> [c \in ChannelConsumers |-> 0], hist |-> <<>>]

ChannelEvent(ev, c, item) == [ev |-> ev, c |-> c, n |-> IF c = 0 THEN 0 ELSE chan.iters[c], item |-> item]

\* a __next__ that reads the oldest item and leaves it in the queue
ChannelNextPeek(q) ==
    [elem |-> IF HasItem(q) THEN GetNowait(q) ELSE "None", queue |-> q]

\* Channel.__next__: "elem = self._queue.get_nowait()", None when the queue
\* is empty
ChannelNext(q) ==
    IF HasItem(q) THEN [elem |-> GetNowait(q), queue |-> AfterGet(q)]
    ELSE [elem |-> "None", queue |-> q]

\* the producer puts the next item
ChannelPut ==
    /\ chan.puts < MaxChannelPuts
    /\ chan' = [chan EXCEPT !.puts = @ + 1,
                        !.queue = QueuePut(@, ChannelItems[chan.puts + 1], TRUE),
                        !.hist = Append(@, ChannelEvent("put", 0, ChannelItems[chan.puts + 1]))]
    /\ UNCHANGED exceptCh

\* "for item in Channel(queue)": a consumer begins an iteration
ChannelIter(c) ==
    /\ chan.pc[c] = "idle"
    /\ chan.iters[c] < MaxIterations
    /\ chan' = [chan EXCEPT !.pc[c] = "iterating", !.iters[c] = @ + 1]
    /\ UNCHANGED exceptCh

\* one __next__ of the iteration: the item is yielded, or "if elem is None:
\* raise StopIteration" ends the for loop
ChannelPull(c) ==
    /\ chan.pc[c] = "iterating"
    /\ LET r == ChannelNext(chan.queue)
       IN  chan' = IF r.elem = "None"
                 THEN [chan EXCEPT !.pc[c] = "idle",
                                 !.hist = Append(@, ChannelEvent("end", c, "None"))]
                 ELSE [chan EXCEPT !.queue = r.queue,
                                 !.hist = Append(@, ChannelEvent("yield", c, r.elem))]
    /\ UNCHANGED exceptCh

\* an empty queue, no iteration begun
InitChannel ==
    /\ IdleLink
    /\ NoAccounts
    /\ ea = NoEngineArchitect
    /\ lk = NoLock
    /\ chan = NewChannel
    /\ drun = NoDriverRunner
    /\ lg = NoRetention

(***************************************************************************)
(* DriverRunner (src/imapfw/runners/driver.py).  A name is the sequence of *)
(* its characters, so that startswith() is computed; a built driver is     *)
(* numbered by the build that made it, 0 is None and -1 the runner itself. *)
(***************************************************************************)
\* str.startswith(prefix)
StartsWith(name, prefix) ==
    Len(name) >= Len(prefix) /\ SubSeq(name, 1, Len(prefix)) = prefix

Member(name, kind) == [name |-> name, kind |-> kind]

\* the members of the object that fw_getDriver() returns for a repository:
\* a driver ("Maildir", "Imap") or, for a repository with controllers, the
\* outermost controller, whose own members exclude what __getattr__ relays
Repositories == {"Maildir", "Imap", "Controlled"}

Members(repository) ==
    CASE repository = "Maildir" ->
            {Member(<<"c", "o", "n", "n", "e", "c", "t">>, "method"),
             Member(<<"i", "n", "i", "t">>, "method"),
             Member(<<"f", "w", "d">>, "method"),
             Member(<<"_", "d", "e", "b", "u", "g">>, "method"),
             Member(<<"_", "_", "i", "n", "i", "t", "_", "_">>, "method"),
             Member(<<"f", "w", "_", "i", "n", "i", "t">>, "method"),
             Member(<<"c", "o", "n", "f">>, "attribute")}
      [] repository = "Imap" ->
            {Member(<<"c", "o", "n", "n", "e", "c", "t">>, "method"),
             Member(<<"l", "o", "g", "o", "u", "t">>, "method"),
             Member(<<"f", "_">>, "method"),
             Member(<<"_", "x">>, "method"),
             Member(<<"f", "w", "_">>, "method"),
             Member(<<"c", "o", "n", "f">>, "attribute")}
      [] OTHER ->
            {Member(<<"i", "n", "i", "t">>, "method"),
             Member(<<"f", "w", "_", "d", "r", "i", "v", "e">>, "method"),
             Member(<<"_", "_", "g", "e", "t", "a", "t", "t", "r", "_", "_">>, "method"),
             Member(<<"d", "r", "i", "v", "e", "r">>, "attribute")}

\* inspect.getmembers(self.driver, inspect.ismethod)
Methods(repository) == {m.name : m \in {x \in Members(repository) : x.kind = "method"}}

\* the names bound by run(): buildDriver, buildDriverFromRepositoryName,
\* isDriverBuilt and logout, of which two are kept here
RunnerTopics ==
    {<<"l", "o", "g", "o", "u", "t">>, <<"b", "u", "i", "l", "d", "D", "r", "i", "v", "e", "r">>}

\* Receiver.accept for every name of `names`, bound to object d
AcceptAll(rm, names, d) ==
    [n \in DOMAIN rm \cup names |-> IF n \in names THEN d ELSE rm[n]]

\* a _driverAccept that skips the names starting with "_" only
DriverAcceptUnderscoreOnly(rm, repository, d) ==
    AcceptAll(rm, {n \in Methods(repository) : ~StartsWith(n, <<"_">>)}, d)

\* DriverRunner._driverAccept: every method whose name starts neither with
\* "_" nor with "fw_" is accepted, bound to the driver
DriverAccept(rm, repository, d) ==
    AcceptAll(rm, {n \in Methods(repository) :
                     ~(StartsWith(n, <<"_">>) \/ StartsWith(n, <<"f", "w", "_">>))}, d)

\* a DriverRunner whose run() has bound its own methods
NewDriverRunner ==
    [NoDriverRunner EXCEPT !.reactMap = AcceptAll(<<>>, RunnerTopics, -1)]

\* buildDriver(accountName, side, reuse) and
\* buildDriverFromRepositoryName(repositoryName, reuse): both return at once
\* when reuse is True and a driver is built, and otherwise run
\* _buildDriver(repository)
BuildDriver(repository, reuse) ==
    /\ drun.calls < MaxBuilds
    /\ drun' =
          IF reuse /\ drun.driver # 0
          THEN [drun EXCEPT !.calls = @ + 1,
                            !.last = [op |-> "build", reuse |-> reuse, repository |-> repository]]
          ELSE [drun EXCEPT !.calls = @ + 1,
                            !.builds = @ + 1,
                            !.driver = drun.builds + 1,
                            !.repositoryName = repository,
                            !.reactMap = DriverAccept(@, repository, drun.builds + 1),
                            !.last = [op |-> "build", reuse |-> reuse, repository |-> repository]]
    /\ UNCHANGED exceptDrun

\* DriverRunner.logout: the driver is logged out and forgotten
Logout ==
    /\ drun.calls < MaxBuilds
    /\ drun.driver # 0
    /\ drun' = [drun EXCEPT !.calls = @ + 1, !.driver = 0,
                            !.last = [op |-> "logout", reuse |-> FALSE, repository |-> "none"]]
    /\ UNCHANGED exceptDrun

\* a DriverRunner that serves, no driver built
InitDriverRunner ==
    /\ IdleLink
    /\ NoAccounts
    /\ ea = NoEngineArchitect
    /\ lk = NoLock
    /\ chan = NoChannel
    /\ drun = NewDriverRunner
    /\ lg = NoRetention

(***************************************************************************)
(* Debug retention of Emitter.send_event and Receiver._react               *)
(* (src/imapfw/edmp.py).  `occurrence` counts the calls of the current run *)
(* of one topic, `lines` holds the debug lines of the last call.           *)
(***************************************************************************)
LogTopics == {"a", "b"}

\* __init__: "_previousTopic = None", "_previousTopicCount = 0"
NewRetention ==
    [previousTopic |-> "None", previousTopicCount |-> 0, occurrence |-> 0, lines |-> <<>>]

\* send_event, before the put: the debug lines written and the new counter
EmitterRetention(e, topic) ==
    IF e.previousTopic # topic
    THEN [e EXCEPT !.lines = (IF e.previousTopicCount > 0 THEN <<"sent">> ELSE <<>>)
                                \o <<"sends">>,
                   !.previousTopicCount = 0,
                   !.previousTopic = topic,
                   !.occurrence = 1]
    ELSE LET count == e.previousTopicCount + 1
         IN  [e EXCEPT !.lines = (IF count = 2 THEN <<"again">> ELSE <<>>)
                                  \o (IF count > SilentTimes - 1 THEN <<"nth">> ELSE <<>>),
                       !.previousTopicCount = IF count > SilentTimes - 1 THEN 0 ELSE count,
                       !.occurrence = @ + 1]

\* _react, before the call of the handler: the same discipline
ReceiverRetention(e, topic) ==
    IF e.previousTopic # topic
    THEN [e EXCEPT !.lines = (IF e.previousTopicCount > 0 THEN <<"reacted">> ELSE <<>>)
                                \o <<"reacting">>,
                   !.previousTopicCount = 0,
                   !.previousTopic = topic,
                   !.occurrence = 1]
    ELSE LET count == e.previousTopicCount + 1
         IN  [e EXCEPT !.lines = (IF count = 2 THEN <<"again">> ELSE <<>>)
                                  \o (IF count > SilentTimes - 1 THEN <<"nth">> ELSE <<>>),
                       !.previousTopicCount = IF count > SilentTimes - 1 THEN 0 ELSE count,
                       !.occurrence = @ + 1]

\* the emitter sends an event of this topic
EmitterLogs(topic) ==
    /\ topic = lg.emitter.previousTopic => lg.emitter.occurrence < MaxRun
    /\ lg' = [lg EXCEPT !.emitter = EmitterRetention(@, topic)]
    /\ UNCHANGED exceptLg

\* the receiver dispatches an event of this topic
ReceiverLogs(topic) ==
    /\ topic = lg.receiver.previousTopic => lg.receiver.occurrence < MaxRun
    /\ lg' = [lg EXCEPT !.receiver = ReceiverRetention(@, topic)]
    /\ UNCHANGED exceptLg

\* an Emitter and a Receiver just constructed
InitRetention ==
    /\ IdleLink
    /\ NoAccounts
    /\ ea = NoEngineArchitect
    /\ lk = NoLock
    /\ chan = NoChannel
    /\ drun = NoDriverRunner
    /\ lg = [emitter |-> NewRetention, receiver |-> NewRetention]

(***************************************************************************)
(* Specifications.                                                         *)
(***************************************************************************)
Next ==
    \/ \E w \in Workers, req \in Requests : SendAsync(w, req)
    \/ \E w \in Workers, req \in Requests : SendSync(w, req)
    \/ \E w \in Workers : PollErrorNone(w)
    \/ \E w \in Workers : PollErrorRaise(w)
    \/ \E w \in Workers : PollResultNone(w)
    \/ \E w \in Workers : PollResultGot(w)
    \/ ReactIdle
    \/ React

Spec == Init /\ [][Next]_vars

\* one worker both sends and serves: no answer can ever be polled
NextSame ==
    \/ \E w \in Workers, req \in Requests : SendAsync(w, req)
    \/ \E w \in Workers, req \in Requests : SendSync(w, req)
    \/ \E w \in Workers : PollErrorNone(w)
    \/ \E w \in Workers : PollResultNone(w)
    \/ ReactIdle
    \/ React

SpecSame == InitSame /\ [][NextSame]_vars

\* a driver worker serving the workers that share its Emitter, managed by
\* its DriverArchitect
NextDriver ==
    \/ \E w \in DriverWorkers, req \in Requests : SendAsync(w, req)
    \/ \E w \in DriverWorkers, req \in Requests : SendSync(w, req)
    \/ \E w \in DriverWorkers : PollErrorNone(w)
    \/ \E w \in DriverWorkers : PollErrorRaise(w)
    \/ \E w \in DriverWorkers : PollResultNone(w)
    \/ \E w \in DriverWorkers : PollResultGot(w)
    \/ ReactIdle
    \/ ReactBegin
    \/ ReactEnd
    \/ DriverStart
    \/ DriverKill
    \/ DriverStop
    \/ DriverJoin

SpecDriver == InitDriver /\ [][NextDriver]_vars

\* the steps an engine makes without an answer of its architect
NextEnginesAlone ==
    \/ \E k \in 1..Len(eng) : EngineFails(k)
    \/ \E k \in 1..Len(eng) : EngineNoFolder(k)
    \/ \E k \in 1..Len(eng) : EngineSyncFolders(k)
    \/ \E k \in 1..Len(eng) : EngineDone(k)
    \/ \E k \in 1..Len(eng) : EngineExit(k)

\* the steps of the engines and of the folders architects
NextEngines ==
    \/ NextEnginesAlone
    \/ \E k \in 1..Len(eng) : EngineStartFailed(k)
    \/ \E k \in 1..Len(eng) : EngineAsksDone(k)
    \/ \E k \in 1..Len(eng) : EngineGotDone(k)
    \/ \E k \in 1..Len(eng), code \in FolderCodes : FoldersFinish(k, code)

\* the syncAccounts action up to the return of start(): the architects are
\* started and nobody monitors them yet
NextStart ==
    \/ ActionRun
    \/ LoadTask
    \/ SpawnArchitect
    \/ NextEnginesAlone

SpecStart == InitStart /\ [][NextStart]_vars

\* the syncAccounts action: the accounts are synced by concurrent architects
NextAccounts ==
    \/ ActionRun
    \/ LoadTask
    \/ SpawnArchitect
    \/ \E outcome \in PollOutcomes : RunPoll(outcome)
    \/ RunWrap
    \/ NextEngines

SpecAccounts == InitAccounts /\ [][NextAccounts]_vars

\* an EngineArchitect, its caller and its three workers
NextEngineArchitect ==
    \/ \E op \in {"start", "stop", "kill"} : EaCall(op)
    \/ EaStartDriver
    \/ EaStartEngine
    \/ EaKillDriver
    \/ EaKillEngine
    \/ EaStopDriver
    \/ EaJoinDriver
    \/ EaStopEngine
    \/ EaJoinEngine
    \/ \E i \in 1..2 : DriverServes(i)
    \/ \E i \in 1..2 : EngineSends(i)
    \/ EngineReturns

SpecEngineArchitect == InitEngineArchitect /\ [][NextEngineArchitect]_vars

\* an EngineArchitect owned by a SyncArchitect: its engine is SyncAccounts
\* and the owner handles accountEngineDone
NextTeardown ==
    \/ NextEngineArchitect
    \/ EngineSendsDone
    \/ EaTeardown

\* the steps of stop() in the thread that called it
EaStopProceeds ==
    \/ EaStopDriver
    \/ EaJoinDriver
    \/ EaStopEngine
    \/ EaJoinEngine

\* the thread that runs stop() goes on, each driver worker loops on
\* "while self.receiver.react()" with handlers that terminate, and run() of
\* the engine returns once its last statement has sent accountEngineDone
SpecTeardown ==
    /\ InitEngineArchitect
    /\ [][NextTeardown]_vars
    /\ WF_vars(EaStopProceeds)
    /\ \A i \in 1..2 : WF_vars(DriverServes(i))
    /\ WF_vars(EngineReturns /\ ea.engine.run = "done")

\* the sends of an Emitter and the dispatches of a Receiver
NextRetention ==
    \/ \E topic \in LogTopics : EmitterLogs(topic)
    \/ \E topic \in LogTopics : ReceiverLogs(topic)

SpecRetention == InitRetention /\ [][NextRetention]_vars

\* the requests served by a DriverRunner
NextDriverRunner ==
    \/ \E repository \in Repositories : \E reuse \in BOOLEAN : BuildDriver(repository, reuse)
    \/ Logout

SpecDriverRunner == InitDriverRunner /\ [][NextDriverRunner]_vars

\* a producer and the consumers of one queue
NextChannel ==
    \/ ChannelPut
    \/ \E c \in ChannelConsumers : ChannelIter(c)
    \/ \E c \in ChannelConsumers : ChannelPull(c)

SpecChannel == InitChannel /\ [][NextChannel]_vars

\* the workers that share one WorkerSafe callable
NextLock ==
    \/ \E w \in LockWorkers : SafeFuncCalled(w)
    \/ \E w \in LockWorkers : LockEnter(w)
    \/ \E w \in LockWorkers : \E outcome \in FuncOutcomes : FuncEnds(w, outcome)
    \/ \E w \in LockWorkers : LockLeave(w)

SpecLock == InitLock /\ [][NextLock]_vars

\* one SyncArchitect polled by its caller
NextArchitect ==
    \/ \E outcome \in PollOutcomes : CallerPoll(1, outcome)
    \/ NextEngines

SpecArchitect == InitArchitect /\ [][NextArchitect]_vars

(***************************************************************************)
(* Vocabulary of the properties.                                           *)
(***************************************************************************)
\* the requests dequeued so far, in the order the Receiver dequeued them
Dequeued == [i \in 1..Len(log) |-> log[i].req]

\* a plain topic name with a registered handler: an asynchronous invocation
IsAsyncRequest(req) ==
    /\ req.topic \in DOMAIN reactMap
    /\ req.topic # StopServing
    /\ ~IsSyncName(req.topic)

\* a <t>_sync request for a registered topic t
IsSyncRequest(req) ==
    /\ req.topic \notin DOMAIN reactMap
    /\ ~StartsWithCached(req.topic) /\ EndsWithSync(req.topic)
    /\ StripSync(req.topic) \in DOMAIN reactMap

\* a cached_<t> (or cached_<t>_sync) request
IsCachedRequest(req) == req.topic \notin DOMAIN reactMap /\ StartsWithCached(req.topic)

\* the topic whose handler or cache entry a request is about
RealTopic(req) == StripSync(StripCached(req.topic))

\* what the handler registered for the request's topic does with its payload
HandlerOutcome(req) ==
    Handler(reactMap[RealTopic(req)].func, reactMap[RealTopic(req)].rargs \o <<req.arg>>)

\* a value that is a single (non-tuple) value or a tuple of N > 1 values
IsPlainResult(val) == ~IsTuple(val) \/ Len(val.elems) > 1

\* the completed Emitter calls whose request is the i-th one enqueued
CallsOf(i) == {k \in 1..Len(calls) : calls[k].idx = i}

AsyncFailedAt(i) ==
    /\ IsAsyncRequest(log[i].req)
    /\ log[i].out.kind = "raise"

(***************************************************************************)
(* C1: the asynchronous requests sent through the Emitter are dequeued in  *)
(* send order, none lost, duplicated or reordered (what was sent is what   *)
(* has been dequeued followed by what is still queued), and each one has   *)
(* had its own handler called, once, with its own payload.                 *)
(***************************************************************************)
FifoPerLink ==
    /\ sent = Dequeued \o eventQ
    /\ \A i \in 1..Len(log) :
          IsAsyncRequest(sent[i]) =>
              /\ log[i].branch = "async"
              /\ log[i].out = Invoked(HandlerOutcome(sent[i]))

\* three asynchronous requests, not all the same, have been sent and their
\* handlers have run, the first two returning
FifoWitness ==
    /\ Len(log) = 3
    /\ \A i \in 1..3 : IsAsyncRequest(log[i].req) /\ log[i].out.ran
    /\ log[1].req # log[2].req
    /\ log[1].out.kind = "return" /\ log[2].out.kind = "return"

(***************************************************************************)
(* C2: whenever the handler called for a <t>_sync request raises, the      *)
(* Receiver puts (class, reason) of that very exception on the error queue *)
(* and the Emitter call raises that class with that reason.                *)
(***************************************************************************)
SyncFailureReraised ==
    \A i \in 1..Len(log) :
        (IsSyncRequest(log[i].req) /\ log[i].out.kind = "raise") =>
            /\ log[i].q = "error"
            /\ log[i].cls = log[i].out.cls
            /\ log[i].reason = log[i].out.reason
            /\ \A k \in CallsOf(i) :
                  calls[k].out = Raise(log[i].out.cls, log[i].out.reason)

(***************************************************************************)
(* C3: when the handler of an asynchronous request raises, nothing is put  *)
(* on the result or error queue, no exception leaves react(), the call of  *)
(* react() that processed it reports continue, the Emitter call had        *)
(* returned normally and the next request sent is the next one dispatched. *)
(***************************************************************************)
AsyncFailureContained ==
    /\ \A i \in 1..Len(log) :
          AsyncFailedAt(i) =>
              /\ log[i].q = "none"
              /\ log[i].next # "crashed"
              /\ \A k \in CallsOf(i) : calls[k].out = Return(NoneVal)
              /\ i < Len(log) => log[i + 1].req = sent[i + 1]
    /\ rcall.asyncFail => rcall.ret \in {"running", "True"}

(***************************************************************************)
(* C4: a completed <t>_sync call whose handler returned a single value or  *)
(* a tuple of N > 1 values has returned exactly that value.                *)
(***************************************************************************)
SyncReturnsHandlerResult ==
    \A k \in 1..Len(calls) :
        LET req == calls[k].req
        IN  (/\ calls[k].idx > 0
             /\ IsSyncRequest(req)
             /\ HandlerOutcome(req).kind = "return"
             /\ IsPlainResult(HandlerOutcome(req).val)
             /\ Picklable(HandlerOutcome(req).val))
            => calls[k].out = Return(HandlerOutcome(req).val)

\* a sync call has returned a tuple of two values, another a single value
SyncReturnWitness ==
    /\ \E k \in 1..Len(calls) :
          /\ IsSyncRequest(calls[k].req)
          /\ calls[k].out.kind = "return" /\ IsTuple(calls[k].out.val)
          /\ Len(calls[k].out.val.elems) = 2
    /\ \E k \in 1..Len(calls) :
          /\ IsSyncRequest(calls[k].req)
          /\ calls[k].out.kind = "return" /\ ~IsTuple(calls[k].out.val)

\* the largest element of a non-empty set of numbers
Last(S) == CHOOSE j \in S : \A x \in S : x <= j

NoCachedValue(req) == Raise("AttributeError", NoCachedReason(req.topic))

\* the asynchronous invocations of the topic of request i processed before it
AsyncInvocationsBefore(i) ==
    {j \in 1..(i - 1) : log[j].branch = "async" /\ log[j].req.topic = RealTopic(log[i].req)}

ReturnedInvocationsBefore(i) ==
    {j \in AsyncInvocationsBefore(i) : log[j].out.kind = "return"}

(***************************************************************************)
(* C5 as stated: a completed cached_<t> call has raised the no-cached-     *)
(* value error if the Receiver had processed no asynchronous invocation of *)
(* t before it, and has otherwise returned the result of the most recently *)
(* processed one; the handler was not run for it.                          *)
(***************************************************************************)
CachedLastInvocation ==
    \A k \in 1..Len(calls) :
        LET i == calls[k].idx
        IN  (i > 0 /\ IsCachedRequest(calls[k].req)) =>
                /\ ~log[i].ran
                /\ IF AsyncInvocationsBefore(i) = {}
                   THEN calls[k].out = NoCachedValue(calls[k].req)
                   ELSE LET last == log[Last(AsyncInvocationsBefore(i))].out
                        IN  /\ last.kind = "return"
                            /\ calls[k].out.kind = "return"
                            /\ IsPlainResult(last.val) => calls[k].out = Return(last.val)

(***************************************************************************)
(* C5 amended: a completed cached_<t> call has raised the no-cached-value  *)
(* error if no asynchronous invocation of t had returned before it, and    *)
(* has otherwise returned the result of the most recent asynchronous       *)
(* invocation of t that returned (for a transportable result that is a     *)
(* single value or a tuple of N > 1 values); the handler was not run.      *)
(***************************************************************************)
CachedLastReturned ==
    \A k \in 1..Len(calls) :
        LET i == calls[k].idx
        IN  (i > 0 /\ IsCachedRequest(calls[k].req)) =>
                /\ ~log[i].ran
                /\ IF ReturnedInvocationsBefore(i) = {}
                   THEN calls[k].out = NoCachedValue(calls[k].req)
                   ELSE LET last == log[Last(ReturnedInvocationsBefore(i))].out
                        IN  (IsPlainResult(last.val) /\ Picklable(last.val))
                                => calls[k].out = Return(last.val)

\* a cached call has returned the result of an invocation that was followed
\* by a failed invocation of the same topic
CachedWitness ==
    \E k \in 1..Len(calls) :
        LET i == calls[k].idx
        IN  /\ i > 0 /\ IsCachedRequest(calls[k].req)
            /\ calls[k].out.kind = "return"
            /\ ReturnedInvocationsBefore(i) # {}
            /\ Last(AsyncInvocationsBefore(i)) > Last(ReturnedInvocationsBefore(i))

(***************************************************************************)
(* C6: a dequeued stopServing runs no handler (one is registered under     *)
(* that name), makes react() return False and ends the serving loop;       *)
(* everything sent before it was dequeued before it and nothing is ever    *)
(* dequeued after it.                                                      *)
(***************************************************************************)
StopServingStops ==
    /\ \A i \in 1..Len(log) :
          log[i].req.topic = StopServing =>
              /\ StopServing \in DOMAIN reactMap
              /\ log[i].branch = "stop" /\ ~log[i].ran
              /\ i = Len(log)
              /\ rpc = "stopped" /\ rcall.ret = "False"
              /\ \A j \in 1..i : log[j].req = sent[j]
    /\ rpc = "stopped" => (Len(log) > 0 /\ log[Len(log)].req.topic = StopServing)

\* the loop has ended with a request dispatched before stopServing and one
\* left in the queue after it
StopServingWitness ==
    /\ rpc = "stopped"
    /\ Len(log) = 2 /\ log[1].ran
    /\ Len(eventQ) = 1

(***************************************************************************)
(* C7: a call of react() dequeues at most one request.                     *)
(***************************************************************************)
AtMostOnePerCall == rcall.pulled <= 1

\* the successful asynchronous requests of a topic sent before request i
GoodSendsBefore(i) ==
    {j \in 1..(i - 1) :
        /\ IsAsyncRequest(sent[j])
        /\ sent[j].topic = RealTopic(sent[i])
        /\ HandlerOutcome(sent[j]).kind = "return"}

SameArgsSentBefore(i) ==
    {j \in GoodSendsBefore(i) : sent[j].arg = sent[i].arg}

Transportable(val) == IsPlainResult(val) /\ Picklable(val)

(***************************************************************************)
(* C8: once the sending worker has sent t asynchronously with a handler    *)
(* that succeeds, a cached_t call it makes later never fails with "no      *)
(* cached value" and returns the result of the latest such send, and a     *)
(* t_sync call with the same arguments returns that result too, whatever   *)
(* the serving worker had done when the calls were made.                   *)
(***************************************************************************)
AsyncThenCachedAndSync ==
    \A k \in 1..Len(calls) :
        LET i == calls[k].idx
            req == calls[k].req
        IN  /\ (i > 0 /\ IsCachedRequest(req) /\ GoodSendsBefore(i) # {}) =>
                  LET val == HandlerOutcome(sent[Last(GoodSendsBefore(i))]).val
                  IN  /\ calls[k].out # NoCachedValue(req)
                      /\ Transportable(val) => calls[k].out = Return(val)
            /\ (i > 0 /\ IsSyncRequest(req) /\ SameArgsSentBefore(i) # {}) =>
                  LET val == HandlerOutcome(sent[Last(SameArgsSentBefore(i))]).val
                  IN  Transportable(val) => calls[k].out = Return(val)

\* the scenario: connect sent asynchronously, then cached_connect and
\* connect_sync have both returned the handler's value
ScenarioWitness ==
    /\ Len(calls) = 3
    /\ IsAsyncRequest(calls[1].req)
    /\ IsCachedRequest(calls[2].req) /\ RealTopic(calls[2].req) = calls[1].req.topic
    /\ IsSyncRequest(calls[3].req) /\ RealTopic(calls[3].req) = calls[1].req.topic
    /\ calls[3].req.arg = calls[1].req.arg
    /\ calls[2].out = calls[3].out
    /\ calls[3].out = Return(HandlerOutcome(calls[1].req).val)

(***************************************************************************)
(* C9 (one worker sends and serves): a synchronous request that has been   *)
(* enqueued is never dequeued and never answered, so no synchronous call   *)
(* ever completes once its request is enqueued.                            *)
(***************************************************************************)
SameWorkerNeverReturns ==
    /\ resultQ = <<>> /\ errorQ = <<>>
    /\ \A i \in 1..Len(log) : ~IsSyncName(log[i].req.topic)
    /\ \A k \in 1..Len(calls) : IsSyncName(calls[k].req.topic) => calls[k].idx = 0
    /\ \A w \in senders : epc[w] # "idle" => (eventQ # <<>> /\ eventQ[Len(eventQ)] = cur[w].req)

\* the worker served a request, then blocked in a synchronous call
SameWorkerWitness ==
    /\ reactor \in senders
    /\ epc[reactor] = "pollResult"
    /\ Len(log) >= 1
    /\ Len(eventQ) >= 2

(***************************************************************************)
(* C10: an Emitter call whose payload cannot be pickled raises at the      *)
(* sender and enqueues nothing: what is or was in the event queue is       *)
(* exactly the requests of the other calls, all of them picklable.         *)
(***************************************************************************)
UnpicklableRejected ==
    /\ \A k \in 1..Len(calls) :
          ~RequestPicklable(calls[k].req) =>
              (calls[k].out = PicklingFailure /\ calls[k].idx = 0)
    /\ \A i \in 1..Len(eventQ) : RequestPicklable(eventQ[i])
    /\ \A i \in 1..Len(log) : RequestPicklable(log[i].req)
    /\ Len(log) + Len(eventQ)
          = Cardinality({k \in 1..Len(calls) : RequestPicklable(calls[k].req)}) + InFlight

\* a call was rejected while another request was waiting in the queue
UnpicklableWitness ==
    /\ \E k \in 2..Len(calls) : ~RequestPicklable(calls[k].req)
    /\ Len(eventQ) >= 1

\* a topic that is not stopServing, not registered and not a synchronous name
Unrecognized(req) ==
    /\ req.topic # StopServing
    /\ req.topic \notin DOMAIN reactMap
    /\ ~IsSyncName(req.topic)

\* the step that dequeues the request at the head of the event queue
Dequeues(P(_)) ==
    /\ Len(log') = Len(log) + 1
    /\ P(Head(eventQ))

(***************************************************************************)
(* C11: the step that dequeues a request whose topic is not stopServing,   *)
(* not registered and not of the cached_/_sync form calls no handler and   *)
(* leaves the cache, the result queue and the error queue unchanged, and   *)
(* the serving loop goes on: the request sent after it is the next one     *)
(* dequeued and, if asynchronous, has its handler called.                  *)
(***************************************************************************)
UnrecognizedDropped ==
    /\ [][Dequeues(Unrecognized) =>
              /\ cache' = cache /\ resultQ' = resultQ /\ errorQ' = errorQ
              /\ ~log'[Len(log')].ran
              /\ rpc' = "inloop"]_vars
    /\ [](\A i \in 1..Len(log) :
              (Unrecognized(log[i].req) /\ i < Len(log)) =>
                  /\ log[i + 1].req = sent[i + 1]
                  /\ IsAsyncRequest(sent[i + 1]) => log[i + 1].ran)

\* an unrecognized request was dropped between two dispatched requests, the
\* first of which had filled the cache
UnrecognizedWitness ==
    /\ Len(log) = 3
    /\ log[1].ran /\ log[1].out.kind = "return" /\ DOMAIN cache # {}
    /\ Unrecognized(log[2].req) /\ log[2].branch = "unhandled"
    /\ log[3].ran

\* a <x>_sync request whose x has no handler and is not the built-in help
UnknownSyncRequest(req) ==
    /\ ~StartsWithCached(req.topic) /\ EndsWithSync(req.topic)
    /\ req.topic \notin DOMAIN reactMap
    /\ StripSync(req.topic) \notin DOMAIN reactMap
    /\ StripSync(req.topic) # StrHelp

UnknownTopicError(req) == [cls |-> "AttributeError", reason |-> UnknownReason(req.topic)]

(***************************************************************************)
(* C12: a dequeued <x>_sync request for an x without handler calls no      *)
(* handler, puts an error entry on the error queue and leaves the serving  *)
(* loop running; the Emitter call, once completed, has raised that error,  *)
(* and until then the error entry is there for its next poll to find.      *)
(***************************************************************************)
UnknownSyncFails ==
    /\ \A i \in 1..Len(log) :
          UnknownSyncRequest(log[i].req) =>
              /\ ~log[i].ran
              /\ log[i].q = "error"
              /\ [cls |-> log[i].cls, reason |-> log[i].reason] = UnknownTopicError(log[i].req)
              /\ log[i].next = "inloop"
              /\ \A k \in CallsOf(i) :
                    calls[k].out = Raise("AttributeError", UnknownReason(log[i].req.topic))
    /\ \A w \in senders :
          (epc[w] # "idle" /\ cur[w].idx <= Len(log) /\ UnknownSyncRequest(cur[w].req)) =>
              errorQ = <<UnknownTopicError(cur[w].req)>>

\* the call for an unknown topic has raised and a request sent after it has
\* been dispatched to its handler
UnknownSyncWitness ==
    \E k \in 1..Len(calls) :
        /\ UnknownSyncRequest(calls[k].req)
        /\ calls[k].out.kind = "raise"
        /\ Len(log) > calls[k].idx
        /\ log[calls[k].idx + 1].ran

\* a request answered by one of the synchronous modes
IsSyncModeRequest(req) == IsSyncRequest(req) \/ IsCachedRequest(req)

\* the <t>_sync requests of the topic of request i that returned a value
\* between the j-th and the i-th request
SyncReturnsBetween(j, i) ==
    {m \in (j + 1)..(i - 1) :
        /\ IsSyncRequest(log[m].req)
        /\ RealTopic(log[m].req) = RealTopic(log[i].req)
        /\ log[m].q = "result"}

(***************************************************************************)
(* C13: the step that dequeues a <t>_sync or a cached_<t> request leaves   *)
(* every cache entry unchanged, and a completed cached_<t> call has        *)
(* returned the last asynchronous result of t also when <t>_sync requests  *)
(* returned other values in between.                                       *)
(***************************************************************************)
CacheOnlyWrittenByAsync ==
    /\ [][Dequeues(IsSyncModeRequest) => cache' = cache]_vars
    /\ [](\A k \in 1..Len(calls) :
              LET i == calls[k].idx
              IN  (/\ i > 0 /\ IsCachedRequest(calls[k].req)
                   /\ ReturnedInvocationsBefore(i) # {}
                   /\ SyncReturnsBetween(Last(ReturnedInvocationsBefore(i)), i) # {}) =>
                      LET last == log[Last(ReturnedInvocationsBefore(i))].out
                      IN  Transportable(last.val) => calls[k].out = Return(last.val))

\* connect sent asynchronously, connect_sync returned another value, then
\* cached_connect returned the asynchronous one
CacheFrameWitness ==
    /\ Len(calls) = 3
    /\ IsAsyncRequest(calls[1].req)
    /\ IsSyncRequest(calls[2].req) /\ RealTopic(calls[2].req) = calls[1].req.topic
    /\ IsCachedRequest(calls[3].req) /\ RealTopic(calls[3].req) = calls[1].req.topic
    /\ calls[2].out.kind = "return"
    /\ calls[3].out.kind = "return"
    /\ calls[3].out # calls[2].out
    /\ calls[3].out = Return(HandlerOutcome(calls[1].req).val)

(***************************************************************************)
(* C14 (a driver worker serving several sending workers): at most one      *)
(* event is being handled at any time, the worker is busy with it until    *)
(* its handling ends, and handling begins in send order: what was sent is  *)
(* what has been handled, then the event being handled, then what is       *)
(* still queued.                                                           *)
(***************************************************************************)
HandlersNeverOverlap ==
    /\ Len(pending) <= 1
    /\ HasItem(pending) =>
          /\ rpc = "handling"
          /\ sent = Dequeued \o <<pending[1].event>> \o eventQ
    /\ ~HasItem(pending) => sent = Dequeued \o eventQ

\* both workers are blocked in a synchronous call: the request of one is
\* being handled while the request of the other waits in the queue
OverlapWitness ==
    /\ \A w \in DriverWorkers : w \in senders /\ epc[w] # "idle"
    /\ HasItem(pending)
    /\ Len(eventQ) = 1

\* the positions of stopServing among the requests sent on the link
StopIndexes == {j \in 1..Len(sent) : sent[j].topic = StopServing}

FirstStop == CHOOSE j \in StopIndexes : \A x \in StopIndexes : j <= x

\* the calls of DriverArchitect.stop() that have returned
ReturnedStops == {i \in 1..Len(ops) : ops[i].op = "stop" /\ ops[i].state = "returned"}

(***************************************************************************)
(* C15 as stated: when DriverArchitect.stop() has returned, the worker has *)
(* finished and every request sent on the link before stop() was called    *)
(* has been dequeued.                                                      *)
(***************************************************************************)
StopDrainsAll ==
    \A i \in ReturnedStops :
        /\ WorkerFinished /\ ~HasItem(pending)
        /\ Len(log) >= ops[i].sentAt

(***************************************************************************)
(* C15 amended: when DriverArchitect.stop() has returned, the worker has   *)
(* finished, and it has dequeued, in send order, exactly the requests up   *)
(* to and including the first stopServing sent on the link (which is not   *)
(* later than the one stop() sent), or, when an exception left react(),    *)
(* the requests up to the one that raised it; the rest is still queued.    *)
(***************************************************************************)
StopJoinsWorker ==
    \A i \in ReturnedStops :
        /\ WorkerFinished /\ ~HasItem(pending)
        /\ sent = Dequeued \o eventQ
        /\ rpc = "stopped" =>
              /\ Len(log) = FirstStop
              /\ FirstStop <= ops[i].sentAt + 1
        /\ rpc = "crashed" =>
              /\ log[Len(log)].next = "crashed"
              /\ Len(log) < FirstStop

\* stop() has returned after the worker handled a request and then the
\* stopServing of stop() itself
StopWitness ==
    \E i \in ReturnedStops :
        /\ rpc = "stopped"
        /\ Len(log) = ops[i].sentAt + 1
        /\ Len(log) >= 2 /\ log[1].ran

(***************************************************************************)
(* C16: the step made by DriverArchitect.kill() appends stopServing to the *)
(* event queue and returns at once, leaving the worker and what it is      *)
(* doing as they were; a worker that ends its serving loop later has       *)
(* first dequeued every request sent before the first stopServing.         *)
(***************************************************************************)
KillIsAdvisory ==
    /\ [][(Len(ops') > Len(ops) /\ ops'[Len(ops')].op = "kill") =>
              /\ ops'[Len(ops')].state = "returned" /\ apc' = "idle"
              /\ eventQ' = Append(eventQ, StopServingRequest)
              /\ worker' = worker /\ rpc' = rpc /\ pending' = pending /\ log' = log]_vars
    /\ [](\A i \in 1..Len(ops) :
              ops[i].op = "kill" =>
                  /\ sent[ops[i].sentAt + 1] = StopServingRequest
                  /\ worker \in {"created", "started"}
                  /\ rpc = "stopped" => Len(log) = FirstStop)

\* after kill() returned, the worker, still running, dispatched a request
\* that was queued before the stopServing of kill()
KillWitness ==
    \E i \in 1..Len(ops) :
        /\ ops[i].op = "kill"
        /\ WorkerRunning
        /\ ops[i].logAt < Len(log) /\ Len(log) <= ops[i].sentAt
        /\ log[Len(log)].ran

(***************************************************************************)
(* C17: the values returned by the successive getExitCode() polls of a     *)
(* SyncArchitect never decrease: the first ones are -1, and once a value   *)
(* v >= 0 was returned every later poll returns v or more.                 *)
(***************************************************************************)
PollsNeverDecrease ==
    /\ [][\A k \in 1..Len(arch) : arch'[k].reported >= arch[k].reported]_vars
    /\ [](\A k \in 1..Len(arch) : arch[k].reported >= -1)

\* a poll returned 10 after an exception, and a later poll handled the
\* accountEngineDone of an engine that ended with 0 and returned 10 again
PollsWitness ==
    /\ sup.pc = "caller"
    /\ arch[1].failed /\ arch[1].reported = SevereExitCode
    /\ eng[1].pc = "finished" /\ eng[1].exitCode = 0
    /\ ~HasItem(arch[1].eventQ)

(***************************************************************************)
(* C18: an aggregating architect never reports done while a child is       *)
(* running: a SyncArchitect whose last poll returned a value >= 0 has an   *)
(* account engine that has finished and no folders architect assigned,     *)
(* and SyncAccountsArchitect.run() has returned only when the last poll of *)
(* every child returned a value >= 0.                                      *)
(***************************************************************************)
Resolved(k) == arch[k].reported >= 0

RunReturnsWhenResolved == sup.pc = "returned" => \A k \in 1..Len(arch) : Resolved(k)

NeverDoneWhileChildRuns ==
    /\ \A k \in 1..Len(arch) :
          Resolved(k) => eng[k].pc = "finished" /\ fold[k].state = "none"
    /\ RunReturnsWhenResolved

(***************************************************************************)
(* C18, amended: a SyncArchitect whose last poll returned a value >= 0     *)
(* either caught an exception while polling, and then the value is 10 or   *)
(* more whatever its engine and its folders architect are doing, or has    *)
(* an account engine that has finished and no folders architect assigned   *)
(* but one whose start() raised; run() has returned only when the last     *)
(* poll of every child returned a value >= 0.                              *)
(***************************************************************************)
DoneOnlyAfterChildren ==
    /\ \A k \in 1..Len(arch) :
          Resolved(k) =>
              IF arch[k].failed THEN arch[k].reported >= SevereExitCode
              ELSE eng[k].pc = "finished" /\ fold[k].state \in {"none", "broken"}
    /\ RunReturnsWhenResolved

\* run() has returned; a child that synced folders ending with 3 reported
\* after its engine finished, and another child reported 10 after an
\* exception while its engine had not finished
DoneWitness ==
    /\ sup.pc = "returned"
    /\ \E j, k \in 1..Len(arch) :
          /\ ~arch[j].failed /\ arch[j].foldersExitCode = 3 /\ arch[j].reported = 3
          /\ eng[j].pc = "finished" /\ fold[j].state = "none"
          /\ arch[k].failed /\ eng[k].pc # "finished"

(***************************************************************************)
(* C19: when SyncAccountsArchitect.run() has returned, every child has     *)
(* reported an exit code >= 0 and has been removed from the list, and the  *)
(* value returned is the largest of the codes reported, or 99 when there   *)
(* was no child to report one; it is never negative.                       *)
(***************************************************************************)
SetMax(S) == CHOOSE m \in S : \A x \in S : x <= m

RunReturnsMax ==
    sup.pc = "returned" =>
        /\ sup.list = <<>>
        /\ \A k \in 1..Len(arch) : Resolved(k)
        /\ sup.ret = IF Len(arch) = 0 THEN NoChildSentinel
                     ELSE SetMax({arch[k].reported : k \in 1..Len(arch)})
        /\ sup.ret >= 0

\* run() has returned the code of the first child although the second
\* child reported, later, a smaller one
RunWitness ==
    /\ sup.pc = "returned"
    /\ Len(arch) = 2
    /\ arch[1].reported = 3 /\ arch[2].reported = 0
    /\ ~arch[1].failed /\ ~arch[2].failed
    /\ sup.ret = 3

(***************************************************************************)
(* C20: once start() has returned, SyncAccountsArchitect has started       *)
(* exactly min(limit, len(names)) SyncArchitect workers, never more than   *)
(* there are accounts; every name was put on the one task queue before the *)
(* first worker was started, and each step that takes a name off the queue *)
(* takes the head of that queue for one worker that was pulling.           *)
(***************************************************************************)
StartsMinWorkers ==
    /\ [](/\ Len(arch) <= Min(sup.limit, Len(sup.names))
          /\ Len(arch) <= Len(sup.names)
          /\ Len(eng) = Len(arch)
          /\ sup.pc \in {"running", "returned"} =>
                Len(arch) = Min(sup.limit, Len(sup.names))
          /\ Len(arch) > 0 => sup.loaded = Len(sup.names))
    /\ [][/\ sup'.loaded > sup.loaded => tasks' = Append(tasks, sup.names[sup'.loaded])
          /\ (tasks' # tasks /\ sup'.loaded = sup.loaded) =>
                /\ tasks' = Tail(tasks)
                /\ Len(eng') = Len(eng)
                /\ Cardinality({k \in 1..Len(eng) : eng'[k] # eng[k]}) <= 1
                /\ \E k \in 1..Len(eng) : eng[k].pc = "pull" /\ eng'[k].gotTask]_vars

\* accounts [a, b, c] and limit 2: start() has returned, two workers were
\* started, each has pulled a name and the third name is on the queue
StartWitness ==
    /\ sup.pc = "running"
    /\ sup.names = <<"a", "b", "c">> /\ sup.limit = 2
    /\ Len(arch) = 2
    /\ eng[1].gotTask /\ eng[2].gotTask
    /\ tasks = <<"c">>

(***************************************************************************)
(* C21: every account name put on the shared task queue is either still on *)
(* the queue or was pulled exactly once, in the order of the list; each    *)
(* pull takes the head of the queue for one engine that was pulling and    *)
(* leaves the other engines as they were; and when every engine has sent   *)
(* accountEngineDone the queue is empty and every name was pulled.         *)
(***************************************************************************)
AllEnginesDone ==
    /\ Len(eng) >= 1
    /\ sup.pc \in {"running", "returned"}
    /\ \A k \in 1..Len(eng) : eng[k].pc \in {"sent", "finished"}

EveryNamePulledOnce ==
    /\ [](/\ taken \o tasks = SubSeq(sup.names, 1, sup.loaded)
          /\ AllEnginesDone => tasks = <<>> /\ taken = sup.names)
    /\ [][taken' # taken =>
              /\ taken' = Append(taken, Head(tasks))
              /\ tasks' = Tail(tasks)
              /\ \E k \in 1..Len(eng) :
                    /\ eng[k].pc = "pull" /\ eng'[k].gotTask
                    /\ \A j \in 1..Len(eng) : j # k => eng'[j] = eng[j]]_vars

\* two engines have each pulled one of the two names and both have sent
\* accountEngineDone
PulledOnceWitness ==
    /\ AllEnginesDone
    /\ Len(eng) = 2 /\ eng[1].gotTask /\ eng[2].gotTask
    /\ taken = <<"a", "b">>

(***************************************************************************)
(* C22: no engine pulls on the shared task queue, with or without finding  *)
(* a name, before start() has put every account name on it: an engine      *)
(* exists only once the queue is loaded, and one that finds the queue      *)
(* empty finds it empty because every name was pulled.                     *)
(***************************************************************************)
FoundEmpty(k) == eng[k].pc = "pull" /\ eng'[k].pc = "sent"

HandlesEngineDone(k) ==
    /\ JoinsEngine(arch[k])
    /\ Len(arch'[k].eventQ) < Len(arch[k].eventQ)

EngineDoneHandled(k) ==
    /\ eng[k].pc \in {"sent", "finished"}
    /\ ~HasItem(arch[k].eventQ)

FoldersAggregateIsMax ==
    \A k \in 1..Len(arch) :
        IF fold[k].state = "done" /\ fold'[k].state = "none"
        THEN arch'[k].foldersExitCode = Max(arch[k].foldersExitCode, fold[k].code)
        ELSE arch'[k].foldersExitCode = arch[k].foldersExitCode

EngineDoneReportsMax ==
    /\ [][\A k \in 1..Len(arch) :
              HandlesEngineDone(k) =>
                  /\ SubSeq(arch'[k].calls, 1, 3) = TeardownCalls
                  /\ arch'[k].reported =
                        Max(GetNowait(arch[k].eventQ).code, arch[k].foldersExitCode)]_vars
    /\ [][\A k \in 1..Len(arch) :
              EngineDoneHandled(k) => arch'[k].reported = arch[k].reported]_vars
    /\ [][FoldersAggregateIsMax]_vars

(***************************************************************************)
(* C23, amended: the poll in which a SyncArchitect handles                 *)
(* accountEngineDone(code) calls stop() on both driver emitters and on the *)
(* engine architect, whose engine has finished, and returns the largest of *)
(* code, the folders exit code at that moment and the value recorded       *)
(* before (10 or more after an exception, else -1); a later poll returns   *)
(* the same value unless it catches an exception, which raises the value   *)
(* to 10 at least; and the folders exit code is the largest exit code of   *)
(* the folders architects that completed and were polled.                  *)
(***************************************************************************)
SevereIfKilled(a) ==
    IF \E i \in 1..Len(a.calls) : a.calls[i] = "engineArch.kill" THEN SevereExitCode
    ELSE -1

EngineDoneReportsMaxRecorded ==
    /\ [][\A k \in 1..Len(arch) :
              HandlesEngineDone(k) =>
                  /\ SubSeq(arch'[k].calls, 1, 3) = TeardownCalls
                  /\ eng[k].pc = "finished"
                  /\ arch[k].exitCode >= 0 => arch[k].failed
                  /\ arch'[k].reported =
                        Max(Max(Max(GetNowait(arch[k].eventQ).code, arch[k].foldersExitCode),
                                arch[k].exitCode),
                            SevereIfKilled(arch'[k]))]_vars
    /\ [][\A k \in 1..Len(arch) :
              EngineDoneHandled(k) =>
                  arch'[k].reported = Max(arch[k].reported, SevereIfKilled(arch'[k]))]_vars
    /\ [][FoldersAggregateIsMax]_vars

\* the engine ended with 0 after folders that ended with 3: the poll that
\* handled accountEngineDone made the three stop calls and returned 3
EngineDoneWitness ==
    /\ sup.pc = "caller"
    /\ EngineDoneHandled(1)
    /\ eng[1].exitCode = 0 /\ arch[1].foldersExitCode = 3 /\ ~arch[1].failed
    /\ arch[1].calls = TeardownCalls
    /\ arch[1].reported = 3

(***************************************************************************)
(* C24: a poll of a SyncArchitect during which an exception is raised, by  *)
(* react() or by the poll of the folders architect, still returns: it has  *)
(* called kill() on the engine architect and on the folders architect if   *)
(* there is one, it returns 10 or more, and SyncAccountsArchitect.run()    *)
(* removes the architect from its list as resolved.                        *)
(***************************************************************************)
CaughtException(k) == SevereIfKilled(arch[k]) = SevereExitCode

InList(k) == \E i \in 1..Len(sup.list) : sup.list[i] = k

ExceptionBecomesSevere ==
    /\ [](\A k \in 1..Len(arch) :
              /\ CaughtException(k) <=> arch[k].failed
              /\ CaughtException(k) =>
                    /\ arch[k].reported >= SevereExitCode
                    /\ arch[k].reported = arch[k].exitCode
                    /\ fold[k].state # "none" =>
                          arch[k].calls[Len(arch[k].calls)] = "foldersArch.kill"
                    /\ sup.pc \in {"running", "returned"} => ~InList(k))
    /\ [][\A k \in 1..Len(arch) :
              (arch'[k].failed /\ ~arch[k].failed) =>
                  /\ arch'[k].reported = Max(arch[k].exitCode, SevereExitCode)
                  /\ sup'.pc = "running" /\ sup'.iter = sup.iter + 1
                  /\ sup'.exitCode = Max(sup.exitCode, arch'[k].reported)]_vars

\* the start() of the folders architect raised and the exception left
\* react(): the poll killed both, returned 10 and the architect was removed
\* while its engine still waits for the answer to syncFolders_sync
ExceptionWitness ==
    /\ sup.pc = "running"
    /\ \E k \in 1..Len(arch) :
          /\ arch[k].failed /\ arch[k].reported = SevereExitCode
          /\ arch[k].calls = <<"engineArch.kill", "foldersArch.kill">>
          /\ fold[k].state = "broken"
          /\ eng[k].pc = "waitStart" /\ ~HasItem(arch[k].errorQ)
          /\ ~InList(k)

(***************************************************************************)
(* C25: EngineArchitect.start() starts both driver workers before it       *)
(* creates and starts the engine worker, so the engine never runs (and     *)
(* never sends a request) while one of its two driver workers has not been *)
(* started; stop() and kill() likewise reach the two drivers before they   *)
(* reach the engine worker.                                                *)
(***************************************************************************)
HistHas(n, call) == \E j \in 1..n : ea.hist[j] = call

DriversBeforeEngine ==
    /\ \A i \in 1..Len(ea.hist) :
          /\ ea.hist[i][2] \in {"engine", "raised"} =>
                /\ HistHas(i - 1, <<ea.hist[i][1], "driver0">>)
                /\ HistHas(i - 1, <<ea.hist[i][1], "driver1">>)
          /\ ea.hist[i][1] = "send" =>
                /\ HistHas(i - 1, <<"start", "driver0">>)
                /\ HistHas(i - 1, <<"start", "driver1">>)
    /\ ea.engine.run # "none" =>
          \A i \in 1..Len(ea.drv) : ea.drv[i].worker = "started"
    /\ ea.op # "none" /\ ea.op # "idle" /\ EaTarget = "engine" =>
          /\ HistHas(Len(ea.hist), <<ea.op, "driver0">>)
          /\ HistHas(Len(ea.hist), <<ea.op, "driver1">>)

\* start() and stop() have returned, the engine has sent its requests, and a
\* kill() has reached the engine worker as well
DriversBeforeEngineWitness ==
    /\ EaDone("start") /\ EaDone("stop") /\ EaDone("kill")
    /\ ea.engine.sends = MaxEngineSends
    /\ HistHas(Len(ea.hist), <<"kill", "engine">>)
    /\ HistHas(Len(ea.hist), <<"stop", "engine">>)

(***************************************************************************)
(* C26: a callable wrapped with WorkerSafe(lock) is run by at most one     *)
(* worker at a time, and the lock is released when the protected code      *)
(* returns or raises: the lock is held exactly while one worker is between *)
(* __enter__ and __exit__, so a worker waiting at "with lock" can always   *)
(* enter once the call before it has ended, also when it ended by raising. *)
(***************************************************************************)
InsideLock == {w \in LockWorkers : lk.pc[w] \in {"inside"} \cup FuncOutcomes}

MutualExclusionScoped ==
    lk # NoLock =>
        /\ Cardinality(InsideLock) <= 1
        /\ lk.locked <=> InsideLock # {}
        /\ \A i \in 1..Len(lk.hist) :
              lk.hist[i][2] = "enter" /\ i > 1 => lk.hist[i - 1][2] \in FuncOutcomes

\* a worker has entered the callable after the call before it raised, and
\* after a call of the other worker that raised
MutualExclusionWitness ==
    /\ lk # NoLock
    /\ \E i \in 2..Len(lk.hist) :
          /\ lk.hist[i][2] = "enter"
          /\ lk.hist[i - 1][2] = "raise"
          /\ lk.hist[i - 1][1] # lk.hist[i][1]
    /\ \E w \in LockWorkers : lk.pc[w] = "enter"
    /\ InsideLock # {}

(***************************************************************************)
(* C27: iterating a Channel yields the items of its queue in FIFO order    *)
(* with non-blocking pulls and ends at the first pull that finds the queue *)
(* empty; a later iteration over the same queue yields the items put       *)
(* since, and over all iterations every item put is yielded at most once   *)
(* and none is lost: the items yielded so far, followed by those still in  *)
(* the queue, are exactly the items put, in the order they were put.       *)
(***************************************************************************)
RECURSIVE ItemsOf(_, _)
ItemsOf(h, ev) ==
    IF h = <<>> THEN <<>>
    ELSE (IF Head(h).ev = ev THEN <<Head(h).item>> ELSE <<>>) \o ItemsOf(Tail(h), ev)

\* consumer c has made one pull in this step
ChannelPulled(c) ==
    /\ chan.pc[c] = "iterating"
    /\ chan'.iters = chan.iters
    /\ chan'.puts = chan.puts
    /\ \/ chan'.pc[c] = "idle"
       \/ Len(chan'.hist) > Len(chan.hist) /\ chan'.hist[Len(chan'.hist)].c = c

ChannelIsFifoView ==
    /\ [](chan # NoChannel =>
            /\ ItemsOf(chan.hist, "yield") \o chan.queue = ItemsOf(chan.hist, "put")
            /\ ItemsOf(chan.hist, "put") = SubSeq(ChannelItems, 1, chan.puts))
    /\ [][\A c \in ChannelConsumers :
            ChannelPulled(c) =>
               IF chan.queue = <<>>
               THEN chan'.pc[c] = "idle" /\ chan'.queue = <<>>
               ELSE /\ chan'.pc[c] = "iterating"
                    /\ chan'.queue = Tail(chan.queue)
                    /\ chan'.hist = Append(chan.hist, [ev |-> "yield", c |-> c,
                                                   n |-> chan.iters[c], item |-> Head(chan.queue)])]_vars

\* a consumer's first iteration yielded an item and ended on the empty queue,
\* and its second iteration yields an item that was put after that end
ChannelViewWitness ==
    /\ chan # NoChannel
    /\ \E i, j, k, l \in 1..Len(chan.hist) :
          /\ i < j /\ j < k /\ k < l
          /\ chan.hist[i].ev = "yield" /\ chan.hist[i].n = 1
          /\ chan.hist[j].ev = "end" /\ chan.hist[j].c = chan.hist[i].c /\ chan.hist[j].n = 1
          /\ chan.hist[k].ev = "put"
          /\ chan.hist[l].ev = "yield" /\ chan.hist[l].c = chan.hist[i].c /\ chan.hist[l].n = 2
          /\ chan.hist[l].item = chan.hist[k].item

(***************************************************************************)
(* C28: after a buildDriver or buildDriverFromRepositoryName call that     *)
(* builds a driver, every method of the new driver whose name starts       *)
(* neither with "_" nor with "fw_" is a topic of the receiver that         *)
(* dispatches to this driver, and no topic has such a prefix; a call with  *)
(* reuse = True while a driver is built leaves the driver and the react    *)
(* map as they were.                                                       *)
(***************************************************************************)
ReservedName(n) ==
    \/ n[1] = "_"
    \/ Len(n) >= 3 /\ n[1] = "f" /\ n[2] = "w" /\ n[3] = "_"

BuildCalled == drun'.calls = drun.calls + 1 /\ drun'.last.op = "build"

RateLimited(e) ==
    /\ e.previousTopicCount \in 0..(SilentTimes - 1)
    /\ e.occurrence \in 1..2 => e.lines # <<>>
    /\ e.occurrence > 2 =>
          (e.lines # <<>> <=> (e.occurrence - 1) % SilentTimes = 0)

LoggingIsRateLimited ==
    lg # NoRetention =>
        /\ lg.emitter.occurrence > 0 => RateLimited(lg.emitter)
        /\ lg.receiver.occurrence > 0 => RateLimited(lg.receiver)

(***************************************************************************)
(* C30: every request whose topic starts with "cached_" or ends with       *)
(* "_sync" and that the Receiver has dequeued has put exactly one entry on *)
(* exactly one of the result queue and the error queue, whatever the       *)
(* handler did, whether the result could be put, and whether the topic is  *)
(* itself a registered name.                                               *)
(***************************************************************************)
EverySyncRequestAnswered ==
    \A i \in 1..Len(log) :
        IsSyncName(log[i].req.topic) => log[i].q \in {"result", "error"}

(***************************************************************************)
(* C31: with a single worker calling through the Emitter, the result queue *)
(* and the error queue together hold at most one entry, both are empty     *)
(* whenever no synchronous call is in progress, and an entry that waits    *)
(* was put for the request the worker is blocked on: no stale response is  *)
(* ever consumed.                                                          *)
(***************************************************************************)
Replies == {i \in 1..Len(log) : log[i].q # "none"}

AtMostOneReplyPending ==
    /\ Len(resultQ) + Len(errorQ) <= 1
    /\ (\A w \in senders : epc[w] = "idle") => resultQ = <<>> /\ errorQ = <<>>
    /\ Len(resultQ) + Len(errorQ) = 1 =>
          \E w \in senders :
              /\ epc[w] # "idle"
              /\ cur[w].idx \in Replies
              /\ \A i \in Replies : i <= cur[w].idx
              /\ log[cur[w].idx].req = cur[w].req

\* an error waits for the blocked worker after an earlier synchronous call
\* has completed and an asynchronous handler has failed
OneReplyWitness ==
    /\ Len(errorQ) = 1
    /\ Len(calls) >= 2
    /\ \E k \in 1..Len(calls) : calls[k].idx > 0 /\ IsSyncName(calls[k].req.topic)
    /\ \E i \in 1..Len(log) : log[i].branch = "async" /\ log[i].out.kind = "raise"

(***************************************************************************)
(* C32: when two workers make synchronous calls through the same Emitter,  *)
(* every call that has ended has returned or raised what the Receiver put  *)
(* for its own request, never what was put for the request of the other    *)
(* worker.                                                                 *)
(***************************************************************************)
ReplyAt(i) ==
    IF log[i].q = "result" THEN Unwrap(log[i].tup)
    ELSE RaiseError(log[i].cls, log[i].reason)

EachCallerGetsOwnReply ==
    \A k \in 1..Len(calls) :
        (calls[k].idx > 0 /\ IsSyncName(calls[k].req.topic)) =>
            /\ calls[k].idx <= Len(log)
            /\ log[calls[k].idx].q # "none"
            /\ calls[k].out = ReplyAt(calls[k].idx)

(***************************************************************************)
(* C33: a synchronous call whose request was put on the event queue after  *)
(* a stopServing sent on the same link never ends: no such call has        *)
(* returned or raised.                                                     *)
(***************************************************************************)
StopSentBefore(i) == \E j \in 1..(i - 1) : sent[j].topic = StopServing

SyncAfterStopNeverEnds ==
    \A k \in 1..Len(calls) :
        (calls[k].idx > 0 /\ IsSyncName(calls[k].req.topic)) => ~StopSentBefore(calls[k].idx)

(***************************************************************************)
(* C34: once syncFolders_sync has returned to the account engine, the      *)
(* engine is told that the folders are done only after the folders         *)
(* architect started by that request has reported an exit code >= 0: while *)
(* the engine waits and this folders architect is still assigned, the      *)
(* flag is False and no True answer waits for the engine, whatever was     *)
(* left by the account processed before.                                   *)
(***************************************************************************)
TrueAnswerWaits(k) ==
    \E i \in 1..Len(arch[k].resultQ) : arch[k].resultQ[i] = <<TRUE>>

DoneOnlyAfterOwnFolders ==
    \A k \in 1..Len(eng) :
        eng[k].pc = "waitDone" =>
            /\ fold[k].state # "none" =>
                  ~arch[k].syncFoldersDone /\ ~TrueAnswerWaits(k)
            /\ TrueAnswerWaits(k) =>
                  /\ arch[k].syncFoldersDone
                  /\ fold[k].state = "none"
                  /\ arch[k].foldersExitCode >= 0

\* the engine waits for the folders of its second account while the
\* folders of the first one, which ended, have left their exit code
OwnFoldersWitness ==
    \E k \in 1..Len(eng) :
        /\ eng[k].pc = "waitDone"
        /\ Len(taken) = 2
        /\ arch[k].foldersExitCode >= 0
        /\ fold[k].state = "running"
        /\ ~arch[k].syncFoldersDone

(***************************************************************************)
(* C36: every engine started by SyncAccountsArchitect has pulled at least  *)
(* one account name from the shared task queue when it sends               *)
(* accountEngineDone: none finds the queue drained on its first pull.      *)
(***************************************************************************)
EveryWorkerPullsAName ==
    \A k \in 1..Len(eng) : eng[k].pc \in {"sent", "finished"} => eng[k].gotTask

(***************************************************************************)
(* C35: the teardown SyncArchitect runs when it handles accountEngineDone  *)
(* terminates: once it has entered engineArch.stop(), each driver worker   *)
(* dequeues stopServing so that its join returns, the engine has sent its  *)
(* last event and its join returns, and stop() returns to the poll.  The   *)
(* teardown is entered only when the engine has nothing left to send.      *)
(***************************************************************************)
TeardownReturned == ea.op = "idle" /\ EaDone("stop")

TeardownTerminates ==
    /\ [](ea.teardown /\ ea.op = "stop" => ea.engine.run \in {"done", "finished"})
    /\ (ea.teardown /\ ea.op = "stop") ~> TeardownReturned

\* the teardown has returned: each driver had requests of the engine and
\* the event `stop` to serve before stopServing, and all three workers ended
TeardownWitness ==
    /\ ea.teardown /\ TeardownReturned
    /\ ea.engine.sends = MaxEngineSends
    /\ ea.engine.run = "finished"
    /\ \A i \in 1..2 : ea.drv[i].run = "stopped" /\ ea.drv[i].q = <<>>

(***************************************************************************)
(* C37: once a build has replaced the driver, every topic of the receiver  *)
(* dispatches to the driver now built or to the runner: none dispatches to *)
(* a driver built before; and the topics run() bound to the runner still   *)
(* dispatch to the runner.                                                 *)
(***************************************************************************)
RebuildForgetsOldDriver ==
    drun.builds >= 2 /\ drun.driver # 0 =>
        /\ \A n \in DOMAIN drun.reactMap : drun.reactMap[n] \in {drun.driver, -1}
        /\ \A n \in RunnerTopics : n \in DOMAIN drun.reactMap /\ drun.reactMap[n] = -1

(***************************************************************************)
(* C38: a completed <t>_sync call whose handler returned a tuple of one    *)
(* value has returned that value, not the tuple; one whose handler         *)
(* returned the empty tuple has raised IndexError at the Emitter; and a    *)
(* completed call has returned what its handler returned exactly when that *)
(* is a non-tuple value or a tuple of more than one value.                 *)
(***************************************************************************)
ShortTupleNotReturned ==
    \A k \in 1..Len(calls) :
        LET req == calls[k].req
            res == HandlerOutcome(req)
        IN  (/\ calls[k].idx > 0
             /\ IsSyncRequest(req)
             /\ res.kind = "return"
             /\ Picklable(res.val))
            => /\ (calls[k].out = Return(res.val)) <=> IsPlainResult(res.val)
               /\ IsTuple(res.val) /\ Len(res.val.elems) = 1 =>
                     calls[k].out = Return(res.val.elems[1])
               /\ IsTuple(res.val) /\ Len(res.val.elems) = 0 =>
                     /\ calls[k].out.kind = "raise"
                     /\ calls[k].out.cls = "IndexError"
                     /\ log[calls[k].idx].q = "result"

\* one sync call whose handler returned a 1-tuple has returned, and one
\* whose handler returned the empty tuple has raised
ShortTupleWitness ==
    /\ \E k \in 1..Len(calls) :
          /\ calls[k].req = Sync("connect", "single")
          /\ calls[k].out.kind = "return" /\ ~IsTuple(calls[k].out.val)
    /\ \E k \in 1..Len(calls) :
          /\ calls[k].req = Sync("connect", "empty")
          /\ calls[k].out.kind = "raise"

(***************************************************************************)
(* C39: the step in which an asynchronously invoked handler raises leaves  *)
(* the cache as it was; the cache entry of a topic is unset while no       *)
(* asynchronous invocation of it has returned and otherwise holds the      *)
(* result of the last one that returned; and a cached_<t> call completed   *)
(* after a failed invocation has returned that result, or raised the       *)
(* no-cached-value error when no invocation had returned.                  *)
(***************************************************************************)
ReturnedInvocationsOf(t) ==
    {j \in 1..Len(log) : log[j].branch = "async" /\ log[j].req.topic = t
                         /\ log[j].out.kind = "return"}

AsyncFailureProcessed ==
    /\ Len(log') = Len(log) + 1
    /\ log'[Len(log')].branch = "async"
    /\ log'[Len(log')].out.kind = "raise"

FailedAsyncKeepsCache ==
    /\ [][AsyncFailureProcessed => cache' = cache]_vars
    /\ [](/\ DOMAIN cache \subseteq DOMAIN reactMap
          /\ \A t \in DOMAIN reactMap :
                IF ReturnedInvocationsOf(t) = {} THEN t \notin DOMAIN cache
                ELSE /\ t \in DOMAIN cache
                     /\ cache[t] = log[Last(ReturnedInvocationsOf(t))].out.val)
    /\ [](\A k \in 1..Len(calls) :
            LET i == calls[k].idx
            IN  (/\ i > 0 /\ IsCachedRequest(calls[k].req)
                 /\ AsyncInvocationsBefore(i) # {}
                 /\ log[Last(AsyncInvocationsBefore(i))].out.kind = "raise") =>
                    IF ReturnedInvocationsBefore(i) = {}
                    THEN calls[k].out = NoCachedValue(calls[k].req)
                    ELSE LET last == log[Last(ReturnedInvocationsBefore(i))].out
                         IN  (IsPlainResult(last.val) /\ Picklable(last.val))
                                 => calls[k].out = Return(last.val))

\* an invocation returned, a later one of the same topic raised, the cache
\* still holds the first result and a cached call made afterwards got it
FailedAsyncWitness ==
    \E i, j \in 1..Len(log) :
        /\ i < j
        /\ log[i].branch = "async" /\ log[i].out.kind = "return"
        /\ log[j].branch = "async" /\ log[j].out.kind = "raise"
        /\ log[j].req.topic = log[i].req.topic
        /\ log[i].req.topic \in DOMAIN cache
        /\ cache[log[i].req.topic] = log[i].out.val
        /\ \E k \in 1..Len(calls) :
              /\ calls[k].idx > j
              /\ IsCachedRequest(calls[k].req)
              /\ RealTopic(calls[k].req) = log[i].req.topic
              /\ calls[k].out = Return(log[i].out.val)

====
